---- MODULE Spec2Model ----
(***************************************************************************)
(* Attendance backend: shift matching, the metrics calculator, the punch   *)
(* endpoint, the two auto-checkout sweepers, the absence marker and the    *)
(* report recomputations, over one attendance store.                       *)
(*                                                                         *)
(* Time: an instant is a whole number of minutes since the epoch           *)
(* (1970-01-01T00:00Z is instant 0).  A stored timestamp (SQL "timestamp", *)
(* no zone) is a wall-clock reading, also in minutes.  Hours are kept in   *)
(* hundredths of an hour (the code rounds them with toFixed(2)).           *)
(***************************************************************************)
EXTENDS Integers, Sequences, FiniteSets, TLC

VARIABLES
    now,            \* the wall clock of the servers: new Date()
    shift_settings, \* table shift_settings of the one employee category, ORDER BY start_time
    records,        \* table attendance_records; attendance_id is the index
    punch,          \* the POST /mark request in flight
    swA,            \* autoCheckoutOverdue (5-minute timer of the mark service)
    swB,            \* autoCheckoutOverdueShifts (hourly timer of the attendance routes)
    resp,           \* the response of the last report request, until it is sent
    calc,           \* a call of calculateAttendanceMetrics: its arguments and its result
    call,           \* a call of the shift matcher or of checkPresenceRequirement
    presence_detections,    \* table presence_detections, in insertion order
    enforcePresence,        \* process.env.ENFORCE_PRESENCE = 'true'
    notif,          \* the notifications of the last punch: email and WhatsApp sends
    timers          \* how the last cycle of each background timer ended

\* what only the presence check, the notifications and the timers touch
others == <<call, presence_detections, enforcePresence, notif, timers>>

vars == <<now, shift_settings, records, punch, swA, swB, resp, calc,
          call, presence_detections, enforcePresence, notif, timers>>

----------------------------------------------------------------------------
(* Values *)

NULL == -1          \* SQL NULL / JS null
INVALID == -2       \* a timestamp string that new Date() cannot parse (NaN)

MinutesPerDay == 24 * 60

\* The zone of the servers, minutes east of UTC: the node:18-alpine image
\* carries no zone data and no TZ setting, so local time is UTC.
LocalOffset == 0

MIN_OT_MINUTES == 15

ZERO_METRICS ==
    [delay_by_minutes |-> 0, extra_time_minutes |-> 0,
     total_working_hours_decimal |-> 0, ot_hours_decimal |-> 0]

----------------------------------------------------------------------------
(* Dates and conversions *)

\* new Date(x): null gives the epoch, an unparsable string gives NaN, a
\* zone-less timestamp text (what the store returns) is read as local time.
NewDate(x) ==
    IF x = NULL THEN 0
    ELSE IF x = INVALID THEN INVALID
    ELSE x - LocalOffset

\* Date.prototype.toISOString(): the UTC reading of the instant
toISOString(t) == t

\* The timestamp a client sends with a punch: the local reading of its clock
ClientTimestamp(t) == t + LocalOffset

\* $n::timestamp of an ISO string: the zone designator is dropped, the
\* digits are stored
CastTimestamp(iso) == iso

\* getHours()*60 + getMinutes() of an instant, in local time
LocalMinutes(t) == (t + LocalOffset) % MinutesPerDay

\* Math.round(x / d) for a non-negative x (halves round up)
RoundDiv(x, d) == (2 * x + d) \div (2 * d)

\* parseFloat((minutes / 60).toFixed(2)), in hundredths of an hour
HoursDecimal(minutes) == RoundDiv(minutes * 100, 60)

Max(a, b) == IF a >= b THEN a ELSE b

----------------------------------------------------------------------------
(* attendanceLogicService *)

\* a shift that ends before it starts treated like a day shift
detectShiftForTime_NoWrap(checkInTime, shifts) ==
    IF Len(shifts) = 0 THEN NULL
    ELSE
        LET checkInMinutes == LocalMinutes(checkInTime)
            isInShift(shift) ==
                /\ checkInMinutes >= shift.startHour * 60 + shift.startMinute
                /\ checkInMinutes <= shift.endHour * 60 + shift.endMinute
            hits == {i \in 1..Len(shifts) : isInShift(shifts[i])}
        IN  IF hits # {}
            THEN LET i == CHOOSE j \in hits : \A k \in hits : j <= k
                 IN  [shiftIndex |-> i, shift |-> shifts[i]]
            ELSE [shiftIndex |-> 1, shift |-> shifts[1]]

detectShiftForTime(checkInTime, shifts) ==
    IF Len(shifts) = 0 THEN NULL
    ELSE
        LET checkInMinutes == LocalMinutes(checkInTime)
            isInShift(shift) ==
                LET shiftStartMinutes == shift.startHour * 60 + shift.startMinute
                    shiftEndMinutes == shift.endHour * 60 + shift.endMinute
                    isMidnightShift == shiftEndMinutes < shiftStartMinutes
                IN  IF isMidnightShift
                    THEN checkInMinutes >= shiftStartMinutes \/ checkInMinutes <= shiftEndMinutes
                    ELSE checkInMinutes >= shiftStartMinutes /\ checkInMinutes <= shiftEndMinutes
            hits == {i \in 1..Len(shifts) : isInShift(shifts[i])}
        IN  IF hits # {}
            THEN LET i == CHOOSE j \in hits : \A k \in hits : j <= k
                 IN  [shiftIndex |-> i, shift |-> shifts[i]]
            ELSE [shiftIndex |-> 1, shift |-> shifts[1]]

buildLocalTime(baseTime, hour, minute) ==
    baseTime - LocalMinutes(baseTime) + hour * 60 + minute

\* the end left on the day of the base time, also for a shift that wraps midnight
buildShiftEndTime_SameDay(baseTime, shift) ==
    buildLocalTime(baseTime, shift.endHour, shift.endMinute)

buildShiftEndTime(baseTime, shift) ==
    LET start == buildLocalTime(baseTime, shift.startHour, shift.startMinute)
        end == buildLocalTime(baseTime, shift.endHour, shift.endMinute)
    IN  IF end <= start THEN end + MinutesPerDay ELSE end

\* the grace windows alone: no answer when none of them holds the time
findShiftForPunchWithGrace_NoFallback(time, shifts) ==
    IF Len(shifts) = 0 THEN NULL
    ELSE
        LET inWindow(shift) ==
                LET startAt == buildLocalTime(time, shift.startHour, shift.startMinute)
                    endAt == buildShiftEndTime(time, shift)
                IN  time >= startAt - shift.graceBefore /\ time <= endAt + shift.graceAfter
            hits == {i \in 1..Len(shifts) : inWindow(shifts[i])}
        IN  IF hits # {}
            THEN LET i == CHOOSE j \in hits : \A k \in hits : j <= k
                 IN  [shiftIndex |-> i, shift |-> shifts[i]]
            ELSE [shiftIndex |-> 0, shift |-> shifts[1]]

findShiftForPunchWithGrace(time, shifts) ==
    IF Len(shifts) = 0 THEN NULL
    ELSE
        LET inWindow(shift) ==
                LET startAt == buildLocalTime(time, shift.startHour, shift.startMinute)
                    endAt == buildShiftEndTime(time, shift)
                    earliest == startAt - shift.graceBefore
                    latest == endAt + shift.graceAfter
                IN  time >= earliest /\ time <= latest
            hits == {i \in 1..Len(shifts) : inWindow(shifts[i])}
        IN  IF hits # {}
            THEN LET i == CHOOSE j \in hits : \A k \in hits : j <= k
                 IN  [shiftIndex |-> i, shift |-> shifts[i]]
            ELSE detectShiftForTime(time, shifts)

getShiftEndWithGrace(time, shift) ==
    buildShiftEndTime(time, shift) + shift.graceAfter

\* The shift a record is accounted to: detectShiftForTime(...)?.shift || shifts[0]
ShiftOf(inTime, shifts) == detectShiftForTime(inTime, shifts).shift

\* a checkout at the very instant of the check-in let through
InvalidTimeRange_Strict(inTime, outTime) ==
    inTime = INVALID \/ outTime = INVALID \/ outTime < inTime

\* The pair of instants the calculator refuses
InvalidTimeRange(inTime, outTime) ==
    inTime = INVALID \/ outTime = INVALID \/ outTime <= inTime

\* the difference taken as it is, check-in before the shift start included
DelayMinutes_Signed(inTime, shiftStartTime) == inTime - shiftStartTime

\* 1. Delay = actual check-in time - shift start (if check-in is after shift
\* start), returned through Math.max(0, .)
DelayMinutes(inTime, shiftStartTime) ==
    Max(0, IF inTime > shiftStartTime THEN RoundDiv(inTime - shiftStartTime, 1) ELSE 0)

\* 4. Extra time = checkout time - shift end time (only positive), returned
\* through Math.max(0, .)
ExtraMinutes(outTime, shiftEndTime) ==
    Max(0, IF outTime > shiftEndTime THEN RoundDiv(outTime - shiftEndTime, 1) ELSE 0)

\* Total hours = checkout time - checkin time
TotalHours(inTime, outTime) == Max(0, HoursDecimal(outTime - inTime))

\* overtime counted from the end of the grace period
OtHours_FromGraceEnd(outTime, shiftEndTime, graceAfter) ==
    LET otStartThreshold == shiftEndTime + graceAfter
        otMinutesFromEnd == RoundDiv(outTime - otStartThreshold, 1)
    IN  IF outTime > otStartThreshold /\ otMinutesFromEnd >= MIN_OT_MINUTES
        THEN HoursDecimal(otMinutesFromEnd) ELSE 0

\* OT: allowed only after end + graceAfter; but counted from shift end
OtHours(outTime, shiftEndTime, graceAfter) ==
    LET otStartThreshold == shiftEndTime + graceAfter
        otMinutesFromEnd == RoundDiv(outTime - shiftEndTime, 1)
    IN  IF outTime > otStartThreshold /\ otMinutesFromEnd >= MIN_OT_MINUTES
        THEN HoursDecimal(otMinutesFromEnd) ELSE 0

\* a 09:00-17:00 shift assumed for a category without shifts
calculateAttendanceMetrics_DefaultShift(inTimeStr, outTimeStr, shifts, isOTShift) ==
    IF inTimeStr = NULL \/ outTimeStr = NULL THEN ZERO_METRICS
    ELSE
        LET inTime == NewDate(inTimeStr)
            outTime == NewDate(outTimeStr)
        IN  IF InvalidTimeRange(inTime, outTime)
            THEN ZERO_METRICS
            ELSE
                LET shift == IF Len(shifts) = 0
                             THEN [startHour |-> 9, startMinute |-> 0, endHour |-> 17,
                                   endMinute |-> 0, graceAfter |-> 0]
                             ELSE ShiftOf(inTime, shifts)
                    shiftStartTime == buildLocalTime(inTime, shift.startHour, shift.startMinute)
                    shiftEndTime == buildShiftEndTime(inTime, shift)
                IN  [delay_by_minutes |-> DelayMinutes(inTime, shiftStartTime),
                     extra_time_minutes |-> ExtraMinutes(outTime, shiftEndTime),
                     total_working_hours_decimal |-> TotalHours(inTime, outTime),
                     ot_hours_decimal |-> OtHours(outTime, shiftEndTime, shift.graceAfter)]

calculateAttendanceMetrics(inTimeStr, outTimeStr, shifts, isOTShift) ==
    IF inTimeStr = NULL \/ outTimeStr = NULL THEN ZERO_METRICS
    ELSE IF Len(shifts) = 0 THEN ZERO_METRICS
    ELSE
        LET inTime == NewDate(inTimeStr)
            outTime == NewDate(outTimeStr)
        IN  IF InvalidTimeRange(inTime, outTime)
            THEN ZERO_METRICS
            ELSE
                LET shift == ShiftOf(inTime, shifts)
                    shiftStartTime == buildLocalTime(inTime, shift.startHour, shift.startMinute)
                    shiftEndTime == buildShiftEndTime(inTime, shift)
                IN  [delay_by_minutes |-> DelayMinutes(inTime, shiftStartTime),
                     extra_time_minutes |-> ExtraMinutes(outTime, shiftEndTime),
                     total_working_hours_decimal |-> TotalHours(inTime, outTime),
                     ot_hours_decimal |-> OtHours(outTime, shiftEndTime, shift.graceAfter)]

----------------------------------------------------------------------------
(* The shift catalogs and the instants the checks draw from *)

Shift(name, sh, sm, eh, em, gb, ga) ==
    [name |-> name, startHour |-> sh, startMinute |-> sm, endHour |-> eh, endMinute |-> em,
     graceBefore |-> gb, graceAfter |-> ga,
     presenceTime |-> 3, presenceCount |-> 3, presenceWindow |-> 5]

DayShift == Shift("Day", 9, 0, 17, 0, 15, 30)
NightShift == Shift("Night", 22, 0, 6, 0, 15, 10)
PlainShift == Shift("Plain", 9, 0, 17, 0, 0, 0)

Catalogs == { <<>>, <<DayShift>>, <<DayShift, NightShift>>, <<PlainShift>> }

\* Times of day: around the start and the end of the shifts and of their graces
DayMinutes ==
    {0, 60, 360, 370, 372, 375, 530, 540, 600, 1020, 1030, 1035, 1050, 1051, 1065, 1320, 1410}

CalcDays == 2

CalcInstants == {d * MinutesPerDay + m : d \in 1..CalcDays, m \in DayMinutes}

----------------------------------------------------------------------------
(* A call of the metrics calculator on arbitrary arguments *)

\* no call pending
CalcIdle ==
    [inTimeStr |-> NULL, outTimeStr |-> NULL, shifts |-> <<>>, isOTShift |-> FALSE,
     done |-> TRUE, result |-> ZERO_METRICS]

CalcArgs ==
    [inTimeStr : CalcInstants \cup {NULL, INVALID},
     outTimeStr : CalcInstants \cup {NULL, INVALID},
     shifts : Catalogs, isOTShift : BOOLEAN,
     done : {FALSE}, result : {ZERO_METRICS}]

Calculate ==
    /\ ~calc.done
    /\ calc' = [calc EXCEPT !.done = TRUE,
                            !.result = calculateAttendanceMetrics(
                                calc.inTimeStr, calc.outTimeStr, calc.shifts, calc.isOTShift)]
    /\ UNCHANGED <<now, shift_settings, records, punch, swA, swB, resp, others>>

----------------------------------------------------------------------------
(* The attendance store and the clock *)

Employees == {1}

MaxRecords == 3

\* The instants at which the servers' clock is read: day 1 08:50, 10:00,
\* 17:45, 21:30 and 23:30, day 2 06:20 and 10:30
Ticks ==
    << MinutesPerDay + 530, MinutesPerDay + 600, MinutesPerDay + 1065,
       MinutesPerDay + 1290, MinutesPerDay + 1410,
       2 * MinutesPerDay + 380, 2 * MinutesPerDay + 630, 2 * MinutesPerDay + 1065 >>

MaxTicks == 6

\* The date (YYYY-MM-DD) of an instant, as a day number
LocalDate(t) == (t + LocalOffset) \div MinutesPerDay
UTCDate(t) == t \div MinutesPerDay

PunchIdle == [pc |-> "idle"]
SweepIdle == [pc |-> "idle", rows |-> <<>>, now |-> 0]
NoResp == [kind |-> "none", rows |-> <<>>]

\* no notification triggered yet
NoNotif == [email |-> "none", whatsapp |-> "none"]

\* What each timer has seen of its callback so far: "ok" while every cycle
\* has met no store error, "caught" once a cycle has met one and handled it
\* inside the run, "uncaught" once an exception has reached the timer
TimersOk ==
    [autoCheckoutOverdue |-> "ok", autoCheckoutOverdueShifts |-> "ok",
     processAbsentMarking |-> "ok"]

Idle == punch = PunchIdle /\ swA.pc = "idle" /\ swB.pc = "idle" /\ resp = NoResp

\* A row of attendance_records; the columns the INSERT leaves out are NULL
Row(employee_id, attendance_date, in_time, out_time, delay) ==
    [employee_id |-> employee_id, attendance_date |-> attendance_date,
     in_time |-> in_time, out_time |-> out_time,
     delay_by_minutes |-> delay, extra_time_minutes |-> NULL,
     total_working_hours_decimal |-> NULL, ot_hours_decimal |-> NULL]

\* UPDATE attendance_records SET out_time, delay_by_minutes, extra_time_minutes,
\* total_working_hours_decimal WHERE attendance_id = id
UpdateCheckout(recs, id, out, metrics) ==
    [recs EXCEPT ![id] =
        [@ EXCEPT !.out_time = CastTimestamp(out),
                  !.delay_by_minutes = metrics.delay_by_minutes,
                  !.extra_time_minutes = metrics.extra_time_minutes,
                  !.total_working_hours_decimal = metrics.total_working_hours_decimal]]

\* The ids of a set of rows, in ascending order
RECURSIVE Ascending(_)
Ascending(ids) ==
    IF ids = {} THEN <<>>
    ELSE LET m == CHOOSE x \in ids : \A y \in ids : x <= y
         IN  <<m>> \o Ascending(ids \ {m})

Tick ==
    /\ Idle
    /\ \E i \in 1..(MaxTicks - 1) : now = Ticks[i] /\ now' = Ticks[i + 1]
    /\ UNCHANGED <<shift_settings, records, punch, swA, swB, resp, calc, others>>

----------------------------------------------------------------------------
(* POST /mark *)

\* SELECT * ... WHERE employee_id AND attendance_date AND out_time IS NULL
\* ORDER BY in_time DESC LIMIT 1: the rows that can come first (NULL sorts
\* first in descending order; rows with equal keys come in either order)
IncompleteRecord(recs, employee_id, date) ==
    LET open == {i \in DOMAIN recs : /\ recs[i].employee_id = employee_id
                                     /\ recs[i].attendance_date = date
                                     /\ recs[i].out_time = NULL}
        before(a, b) == \/ recs[a].in_time = NULL /\ recs[b].in_time # NULL
                        \/ /\ recs[a].in_time # NULL /\ recs[b].in_time # NULL
                           /\ recs[a].in_time > recs[b].in_time
    IN  {i \in open : \A k \in open : ~before(k, i)}

\* Calculate delay at check-in so that late arrivals are visible on dashboards
DelayAtCheckIn(checkInTime, matchShift) ==
    LET shiftStart == buildLocalTime(checkInTime, matchShift.startHour, matchShift.startMinute)
    IN  IF checkInTime > shiftStart THEN RoundDiv(checkInTime - shiftStart, 1) ELSE 0

\* The request arrives: face matched to employee e, timestamp and date of the
\* client's clock; the shifts are loaded and the incomplete record is looked up.
PunchLookup(e) ==
    /\ punch = PunchIdle
    /\ resp = NoResp
    /\ Len(shift_settings) > 0
    /\ LET timestampStr == ClientTimestamp(now)
           date == LocalDate(now)
           found == IncompleteRecord(records, e, date)
       IN  IF found # {}
           THEN \E id \in found :
                    /\ NewDate(timestampStr) > NewDate(records[id].in_time)
                    /\ punch' = [pc |-> "checkout", employee_id |-> e,
                                 timestampStr |-> timestampStr, date |-> date,
                                 record |-> [attendance_id |-> id,
                                             in_time |-> records[id].in_time]]
           ELSE punch' = [pc |-> "checkin", employee_id |-> e,
                          timestampStr |-> timestampStr, date |-> date,
                          record |-> [attendance_id |-> 0, in_time |-> NULL]]
    /\ UNCHANGED <<now, shift_settings, records, swA, swB, resp, calc, others>>

\* Checkout branch: the metrics of the record read at lookup, then the UPDATE
PunchCheckout ==
    /\ punch.pc = "checkout"
    /\ LET isOTShift == \E i \in DOMAIN records :
                            /\ records[i].employee_id = punch.employee_id
                            /\ records[i].attendance_date = punch.date
                            /\ records[i].out_time # NULL
           metrics == calculateAttendanceMetrics(
                          punch.record.in_time, punch.timestampStr, shift_settings, isOTShift)
       IN  records' = UpdateCheckout(records, punch.record.attendance_id,
                                     punch.timestampStr, metrics)
    /\ punch' = PunchIdle
    /\ UNCHANGED <<now, shift_settings, swA, swB, resp, calc, others>>

\* Check-in branch: the grace-aware match, the delay, then the INSERT
PunchCheckIn ==
    /\ punch.pc = "checkin"
    /\ Len(records) < MaxRecords
    /\ LET checkInTime == NewDate(punch.timestampStr)
           matchShift == findShiftForPunchWithGrace(checkInTime, shift_settings).shift
       IN  records' = Append(records,
                Row(punch.employee_id, punch.date, CastTimestamp(punch.timestampStr), NULL,
                    DelayAtCheckIn(checkInTime, matchShift)))
    /\ punch' = PunchIdle
    /\ UNCHANGED <<now, shift_settings, swA, swB, resp, calc, others>>

----------------------------------------------------------------------------
(* The auto-checkout sweepers *)

\* the SELECT without its WHERE clause: every row, closed ones included
OpenRows_All(recs) == Ascending(DOMAIN recs)

\* SELECT ... FROM attendance_records r JOIN employee_details d
\* WHERE r.out_time IS NULL: the rows a sweeper run works through
OpenRows(recs) == Ascending({i \in DOMAIN recs : recs[i].out_time = NULL})

Snapshot(recs, ids) ==
    [k \in 1..Len(ids) |-> [attendance_id |-> ids[k], in_time |-> recs[ids[k]].in_time]]

\* autoCheckoutOverdueShifts: shift end of the check-in's day, moved to the
\* next day when it is not after the check-in, + 4 hours
AutoCheckoutTimeB(inTime, shift) ==
    LET sameDay == buildLocalTime(inTime, shift.endHour, shift.endMinute)
        shiftEndTime == IF sameDay <= inTime THEN sameDay + MinutesPerDay ELSE sameDay
    IN  shiftEndTime + 4 * 60

\* the 5-minute sweeper writing the time of the run as the checkout
SweepARow_AtNow(recs, row, shifts, t) ==
    IF Len(shifts) = 0 THEN recs
    ELSE
        LET inTime == NewDate(row.in_time)
            endWithGrace == getShiftEndWithGrace(inTime, ShiftOf(inTime, shifts))
        IN  IF t >= endWithGrace
            THEN LET outISO == toISOString(t)
                 IN  UpdateCheckout(recs, row.attendance_id, outISO,
                        calculateAttendanceMetrics(row.in_time, outISO, shifts, FALSE))
            ELSE recs

\* the 5-minute sweeper skipping the rows whose check-in lies in no shift
SweepARow_NoFallback(recs, row, shifts, t) ==
    IF Len(shifts) = 0 THEN recs
    ELSE
        LET inTime == NewDate(row.in_time)
            endWithGrace == getShiftEndWithGrace(inTime, ShiftOf(inTime, shifts))
            contained == \E k \in DOMAIN shifts :
                LET m == LocalMinutes(inTime)
                    st == shifts[k].startHour * 60 + shifts[k].startMinute
                    en == shifts[k].endHour * 60 + shifts[k].endMinute
                IN  IF en < st THEN m >= st \/ m <= en ELSE m >= st /\ m <= en
        IN  IF contained /\ t >= endWithGrace
            THEN LET outISO == toISOString(endWithGrace)
                 IN  UpdateCheckout(recs, row.attendance_id, outISO,
                        calculateAttendanceMetrics(row.in_time, outISO, shifts, FALSE))
            ELSE recs

\* One pass of the loop body of autoCheckoutOverdue over a selected row;
\* t is the `now` read before the loop
SweepARow(recs, row, shifts, t) ==
    IF Len(shifts) = 0 THEN recs
    ELSE
        LET inTime == NewDate(row.in_time)
            endWithGrace == getShiftEndWithGrace(inTime, ShiftOf(inTime, shifts))
        IN  IF t >= endWithGrace
            THEN LET outISO == toISOString(endWithGrace)
                 IN  UpdateCheckout(recs, row.attendance_id, outISO,
                        calculateAttendanceMetrics(row.in_time, outISO, shifts, FALSE))
            ELSE recs

\* One pass of the loop body of autoCheckoutOverdueShifts; t is the `now`
\* read inside the loop
SweepBRow(recs, row, shifts, t) ==
    IF Len(shifts) = 0 THEN recs
    ELSE
        LET inTime == NewDate(row.in_time)
            autoCheckoutTime == AutoCheckoutTimeB(inTime, ShiftOf(inTime, shifts))
        IN  IF t >= autoCheckoutTime
            THEN LET isOTShift ==
                        \E i \in DOMAIN recs :
                            /\ recs[i].employee_id = recs[row.attendance_id].employee_id
                            /\ recs[i].attendance_date = recs[row.attendance_id].attendance_date
                            /\ recs[i].out_time # NULL
                     checkoutTime == toISOString(autoCheckoutTime)
                 IN  UpdateCheckout(recs, row.attendance_id, checkoutTime,
                        calculateAttendanceMetrics(row.in_time, checkoutTime, shifts, isOTShift))
            ELSE recs

SweepASelect ==
    /\ swA.pc = "idle"
    /\ resp = NoResp
    /\ OpenRows(records) # <<>>
    /\ swA' = [pc |-> "loop", rows |-> Snapshot(records, OpenRows(records)), now |-> now]
    /\ UNCHANGED <<now, shift_settings, records, punch, swB, resp, calc, others>>

SweepAStep ==
    /\ swA.pc = "loop"
    /\ records' = SweepARow(records, Head(swA.rows), shift_settings, swA.now)
    /\ swA' = IF Len(swA.rows) = 1 THEN SweepIdle
              ELSE [swA EXCEPT !.rows = Tail(swA.rows)]
    /\ UNCHANGED <<now, shift_settings, punch, swB, resp, calc, others>>

SweepBSelect ==
    /\ swB.pc = "idle"
    /\ resp = NoResp
    /\ OpenRows(records) # <<>>
    /\ swB' = [pc |-> "loop", rows |-> Snapshot(records, OpenRows(records)), now |-> 0]
    /\ UNCHANGED <<now, shift_settings, records, punch, swA, resp, calc, others>>

SweepBStep ==
    /\ swB.pc = "loop"
    /\ records' = SweepBRow(records, Head(swB.rows), shift_settings, now)
    /\ swB' = IF Len(swB.rows) = 1 THEN SweepIdle
              ELSE [swB EXCEPT !.rows = Tail(swB.rows)]
    /\ UNCHANGED <<now, shift_settings, punch, swA, resp, calc, others>>

----------------------------------------------------------------------------
(* The absence marker *)

\* the marker without its test for a check-in
MarkAbsentEmployee_NoCheckInTest(recs, e, date) ==
    LET attendanceRecords == {i \in DOMAIN recs : /\ recs[i].employee_id = e
                                                  /\ recs[i].attendance_date = date}
        existingRecord == \E i \in attendanceRecords :
                              recs[i].in_time = NULL /\ recs[i].out_time = NULL
    IN  IF ~existingRecord THEN Append(recs, Row(e, date, NULL, NULL, NULL))
        ELSE recs

\* markAbsentForShift for one employee: the rows of the date are read, then
\* an absence row is inserted or not
MarkAbsentEmployee(recs, e, date) ==
    LET attendanceRecords == {i \in DOMAIN recs : /\ recs[i].employee_id = e
                                                  /\ recs[i].attendance_date = date}
        hasValidCheckIn == \E i \in attendanceRecords : recs[i].in_time # NULL
        existingRecord == \E i \in attendanceRecords :
                              recs[i].in_time = NULL /\ recs[i].out_time = NULL
    IN  IF attendanceRecords = {} THEN Append(recs, Row(e, date, NULL, NULL, NULL))
        ELSE IF ~hasValidCheckIn /\ ~existingRecord
             THEN Append(recs, Row(e, date, NULL, NULL, NULL))
             ELSE recs

RECURSIVE MarkAbsentEmployees(_, _, _)
MarkAbsentEmployees(recs, es, date) ==
    IF es = <<>> THEN recs
    ELSE MarkAbsentEmployees(MarkAbsentEmployee(recs, Head(es), date), Tail(es), date)

\* markAbsentForShift(employeeType, shift, date) at instant t
markAbsentForShift(recs, shift, date, t) ==
    LET endOfDate == date * MinutesPerDay + shift.endHour * 60 + shift.endMinute
        shiftEndTime ==
            IF shift.endHour * 60 + shift.endMinute < shift.startHour * 60 + shift.startMinute
            THEN endOfDate + MinutesPerDay ELSE endOfDate
    IN  IF t < shiftEndTime THEN recs
        ELSE MarkAbsentEmployees(recs, Ascending(Employees), date)

\* processAbsentMarking: every shift of the category, for today
RECURSIVE processAbsentMarking(_, _, _)
processAbsentMarking(recs, shifts, t) ==
    IF shifts = <<>> THEN recs
    ELSE processAbsentMarking(
            markAbsentForShift(recs, Head(shifts), UTCDate(t), t), Tail(shifts), t)

MarkAbsent ==
    /\ resp = NoResp
    /\ LET marked == processAbsentMarking(records, shift_settings, now)
       IN  /\ Len(marked) <= MaxRecords
           /\ marked # records
           /\ records' = marked
    /\ UNCHANGED <<now, shift_settings, punch, swA, swB, resp, calc, others>>

----------------------------------------------------------------------------
(* The reports *)

\* recordsForDay.findIndex(...) > 0 && out_time !== null: the row is not the
\* first of its employee and date in the order of the query (in_time
\* ascending, NULL last)
IsOTShiftByOrder(recs, i) ==
    /\ recs[i].out_time # NULL
    /\ \E k \in DOMAIN recs :
        /\ k # i
        /\ recs[k].employee_id = recs[i].employee_id
        /\ recs[k].attendance_date = recs[i].attendance_date
        /\ \/ recs[k].in_time # NULL /\ recs[i].in_time = NULL
           \/ recs[k].in_time # NULL /\ recs[i].in_time # NULL
              /\ recs[k].in_time < recs[i].in_time
           \/ recs[k].in_time = recs[i].in_time /\ k < i

\* The is_ot column of the detailed report: an earlier row (by id) of the
\* employee and date is closed
IsOTShiftById(recs, i) ==
    \E k \in DOMAIN recs :
        /\ recs[k].employee_id = recs[i].employee_id
        /\ recs[k].attendance_date = recs[i].attendance_date
        /\ recs[k].out_time # NULL
        /\ k < i

\* x || 0 for a column
OrZero(x) == IF x = NULL THEN 0 ELSE x

StoredMetrics(r) ==
    [delay_by_minutes |-> OrZero(r.delay_by_minutes),
     extra_time_minutes |-> OrZero(r.extra_time_minutes),
     total_working_hours_decimal |-> OrZero(r.total_working_hours_decimal)]

Recalculable(r) == r.out_time # NULL /\ r.in_time # NULL

\* fetchAttendanceRows of routes/attendanceRoutes.js: the row it returns
RoutesRow(recs, i, shifts) ==
    LET r == recs[i]
        m == calculateAttendanceMetrics(r.in_time, r.out_time, shifts, IsOTShiftByOrder(recs, i))
    IN  IF Recalculable(r)
        THEN [attendance_id |-> i, row |-> r,
              delay_by_minutes |-> m.delay_by_minutes,
              extra_time_minutes |-> m.extra_time_minutes,
              total_working_hours_decimal |-> m.total_working_hours_decimal,
              ot_hours_decimal |-> m.ot_hours_decimal]
        ELSE [attendance_id |-> i, row |-> r,
              delay_by_minutes |-> StoredMetrics(r).delay_by_minutes,
              extra_time_minutes |-> StoredMetrics(r).extra_time_minutes,
              total_working_hours_decimal |-> StoredMetrics(r).total_working_hours_decimal,
              ot_hours_decimal |-> 0]

\* ... and the UPDATE it sends for a row whose stored metrics differ
RoutesWriteBack(recs, i, shifts) ==
    LET r == recs[i]
        m == calculateAttendanceMetrics(r.in_time, r.out_time, shifts, IsOTShiftByOrder(recs, i))
    IN  IF Recalculable(r)
           /\ \/ r.delay_by_minutes # m.delay_by_minutes
              \/ r.extra_time_minutes # m.extra_time_minutes
              \/ r.total_working_hours_decimal # m.total_working_hours_decimal
        THEN [r EXCEPT !.delay_by_minutes = m.delay_by_minutes,
                       !.extra_time_minutes = m.extra_time_minutes,
                       !.total_working_hours_decimal = m.total_working_hours_decimal]
        ELSE r

\* fetchAttendanceRows of routes/attendanceReportRoutes.js: the row it returns
ReportRoutesRow(recs, i, shifts) ==
    LET r == recs[i]
        isOTShift == IsOTShiftByOrder(recs, i)
        m == IF Recalculable(r)
             THEN calculateAttendanceMetrics(r.in_time, r.out_time, shifts, isOTShift)
             ELSE StoredMetrics(r)
    IN  [attendance_id |-> i, row |-> r,
         delay_by_minutes |-> m.delay_by_minutes,
         extra_time_minutes |-> m.extra_time_minutes,
         total_working_hours_decimal |-> m.total_working_hours_decimal,
         ot_hours_decimal |-> IF isOTShift THEN m.total_working_hours_decimal ELSE 0]

\* Regular shift hours: shift end - shift start when the checkout is at or
\* after the shift end, checkout - shift start otherwise
RegularShiftHours(inTime, outTime, shift) ==
    LET shiftStartTime == buildLocalTime(inTime, shift.startHour, shift.startMinute)
        shiftEndTime == buildShiftEndTime(inTime, shift)
    IN  IF outTime >= shiftEndTime
        THEN Max(0, HoursDecimal(shiftEndTime - shiftStartTime))
        ELSE Max(0, HoursDecimal(outTime - shiftStartTime))

\* the auto-calculated branch tried before the manual one
FinalTotalHours_AutoFirst(dbOTHours, autoOTHours, workedHours, regularShiftHours) ==
    IF autoOTHours > 0 THEN Max(0, regularShiftHours + autoOTHours)
    ELSE IF dbOTHours > 0 THEN Max(0, workedHours + dbOTHours)
    ELSE workedHours

\* Total hours of the detailed report: manual OT, auto-calculated OT, no OT
FinalTotalHours(dbOTHours, autoOTHours, workedHours, regularShiftHours) ==
    LET finalOTHours == IF dbOTHours > 0 THEN dbOTHours ELSE autoOTHours
    IN  IF dbOTHours > 0 THEN Max(0, workedHours + dbOTHours)
        ELSE IF finalOTHours > 0 THEN Max(0, regularShiftHours + finalOTHours)
        ELSE workedHours

\* GET /detailed-report: the row it returns
DetailedRow(recs, i, shifts) ==
    LET r == recs[i]
        dbOTHours == OrZero(r.ot_hours_decimal)
    IN  IF Recalculable(r)
        THEN LET metrics == calculateAttendanceMetrics(
                                r.in_time, r.out_time, shifts, IsOTShiftById(recs, i))
                 inTime == NewDate(r.in_time)
                 outTime == NewDate(r.out_time)
                 regularShiftHours ==
                    IF Len(shifts) > 0
                    THEN RegularShiftHours(inTime, outTime, ShiftOf(inTime, shifts))
                    ELSE 0
             IN  [attendance_id |-> i, row |-> r,
                  delay_by_minutes |-> metrics.delay_by_minutes,
                  extra_time_minutes |-> metrics.extra_time_minutes,
                  total_working_hours_decimal |->
                      FinalTotalHours(dbOTHours, metrics.ot_hours_decimal,
                                      metrics.total_working_hours_decimal, regularShiftHours),
                  ot_hours_decimal |->
                      IF dbOTHours > 0 THEN dbOTHours ELSE metrics.ot_hours_decimal]
        ELSE [attendance_id |-> i, row |-> r,
              delay_by_minutes |-> StoredMetrics(r).delay_by_minutes,
              extra_time_minutes |-> StoredMetrics(r).extra_time_minutes,
              total_working_hours_decimal |-> StoredMetrics(r).total_working_hours_decimal,
              ot_hours_decimal |-> dbOTHours]

\* GET /report and /download-excel of routes/attendanceRoutes.js
ReportOfAttendanceRoutes ==
    /\ Idle
    /\ records # <<>>
    /\ resp' = [kind |-> "attendanceRoutes",
                rows |-> [i \in DOMAIN records |-> RoutesRow(records, i, shift_settings)]]
    /\ records' = [i \in DOMAIN records |-> RoutesWriteBack(records, i, shift_settings)]
    /\ UNCHANGED <<now, shift_settings, punch, swA, swB, calc, others>>

\* GET /report and /download-excel of routes/attendanceReportRoutes.js
ReportOfReportRoutes ==
    /\ Idle
    /\ records # <<>>
    /\ resp' = [kind |-> "attendanceReportRoutes",
                rows |-> [i \in DOMAIN records |-> ReportRoutesRow(records, i, shift_settings)]]
    /\ UNCHANGED <<now, shift_settings, records, punch, swA, swB, calc, others>>

\* GET /detailed-report of routes/reportRoutes.js
DetailedReport ==
    /\ Idle
    /\ records # <<>>
    /\ resp' = [kind |-> "detailed",
                rows |-> [i \in DOMAIN records |-> DetailedRow(records, i, shift_settings)]]
    /\ UNCHANGED <<now, shift_settings, records, punch, swA, swB, calc, others>>

\* res.json(rows): the response leaves the server
ResponseSent ==
    /\ resp # NoResp
    /\ resp' = NoResp
    /\ UNCHANGED <<now, shift_settings, records, punch, swA, swB, calc, others>>

----------------------------------------------------------------------------
(* The administrative edit of a record's overtime *)

ManualOTHours == {150}

\* An administrator sets ot_hours_decimal = x > 0 on a record with a check-in
AdminSetOT ==
    /\ resp = NoResp
    /\ \E i \in DOMAIN records, x \in ManualOTHours :
        /\ records[i].in_time # NULL
        /\ records[i].ot_hours_decimal = NULL
        /\ records' = [records EXCEPT ![i].ot_hours_decimal = x]
    /\ UNCHANGED <<now, shift_settings, punch, swA, swB, resp, calc, others>>

----------------------------------------------------------------------------
(* A call of the shift matcher on an arbitrary instant and catalog *)

EveningShift == Shift("Evening", 18, 0, 23, 0, 10, 20)
LateShift == Shift("Late", 21, 30, 5, 45, 0, 0)
MorningShift == Shift("Morning", 6, 0, 14, 0, 0, 0)
AfternoonShift == Shift("Afternoon", 14, 0, 22, 0, 0, 0)

MatchCatalogs ==
    { <<>>, <<NightShift>>, <<DayShift, NightShift>>, <<NightShift, DayShift>>,
      <<EveningShift, NightShift>>, <<DayShift, LateShift>>,
      <<MorningShift, AfternoonShift>> }

MatchDays == 1

\* every minute of the day
MatchInstants == {d * MinutesPerDay + m : d \in 1..MatchDays, m \in 0..(MinutesPerDay - 1)}

\* no call pending
CallIdle == [fn |-> "none"]

\* detected and matched are the shiftIndex of the two answers, counted from
\* 1; 0 stands for null
MatchArgs ==
    [fn : {"match"}, time : MatchInstants, shifts : MatchCatalogs,
     done : {FALSE}, detected : {0}, matched : {0}]

Match ==
    /\ call.fn = "match"
    /\ ~call.done
    /\ call' = [call EXCEPT
                    !.done = TRUE,
                    !.detected = IF Len(call.shifts) = 0 THEN 0
                                 ELSE detectShiftForTime(call.time, call.shifts).shiftIndex,
                    !.matched = IF Len(call.shifts) = 0 THEN 0
                                ELSE findShiftForPunchWithGrace(call.time, call.shifts).shiftIndex]
    /\ UNCHANGED <<now, shift_settings, records, punch, swA, swB, resp, calc,
                   presence_detections, enforcePresence, notif, timers>>

----------------------------------------------------------------------------
(* presenceDetectionService *)

SecondsPerMinute == 60

\* A row of presence_detections; detection_time in seconds since the epoch
Detection(employee_id, date, detection_time) ==
    [employee_id |-> employee_id, date |-> date, detection_time |-> detection_time]

\* row.presence_time || 3, row.presence_count || 3, row.presence_window || 5:
\* NULL and 0 give the default
OrDefault(x, d) == IF x = NULL \/ x = 0 THEN d ELSE x

\* the count test alone passed on, the empty result included
checkPresenceRequirement_CountOnly(detections, employeeId, date, presenceTime, presenceCount, presenceWindow, nowSeconds, storeFails) ==
    IF storeFails THEN FALSE
    ELSE
        LET windowStart == nowSeconds - presenceWindow
            rows == {i \in DOMAIN detections :
                        /\ detections[i].employee_id = employeeId
                        /\ detections[i].date = date
                        /\ detections[i].detection_time >= windowStart}
        IN  Cardinality(rows) >= presenceCount

\* an error of the store passed for a met requirement
checkPresenceRequirement_FailOpen(detections, employeeId, date, presenceTime, presenceCount, presenceWindow, nowSeconds, storeFails) ==
    IF storeFails THEN TRUE
    ELSE
        LET windowStart == nowSeconds - presenceWindow
            rows == {i \in DOMAIN detections :
                        /\ detections[i].employee_id = employeeId
                        /\ detections[i].date = date
                        /\ detections[i].detection_time >= windowStart}
            times == {detections[i].detection_time : i \in rows}
        IN  IF Cardinality(rows) = 0 THEN FALSE
            ELSE IF Cardinality(rows) >= presenceCount THEN TRUE
            ELSE /\ Cardinality(rows) >= 2
                 /\ \E firstDetection, lastDetection \in times :
                        /\ \A x \in times : firstDetection <= x /\ x <= lastDetection
                        /\ lastDetection - firstDetection >= presenceTime

\* storeFails: a query of the presence store throws, the catch returns false
checkPresenceRequirement(detections, employeeId, date, presenceTime, presenceCount, presenceWindow, nowSeconds, storeFails) ==
    IF storeFails THEN FALSE
    ELSE
        LET windowStart == nowSeconds - presenceWindow
            rows == {i \in DOMAIN detections :
                        /\ detections[i].employee_id = employeeId
                        /\ detections[i].date = date
                        /\ detections[i].detection_time >= windowStart}
            times == {detections[i].detection_time : i \in rows}
        IN  IF Cardinality(rows) = 0 THEN FALSE
            ELSE IF Cardinality(rows) >= presenceCount THEN TRUE
            ELSE /\ Cardinality(rows) >= 2
                 /\ \E firstDetection, lastDetection \in times :
                        /\ \A x \in times : firstDetection <= x /\ x <= lastDetection
                        /\ lastDetection - firstDetection >= presenceTime

MaxDetections == 3

\* Tables of at most n rows over a set of rows
RECURSIVE Tables(_, _)
Tables(rows, n) ==
    IF n = 0 THEN {<<>>}
    ELSE Tables(rows, n - 1) \cup {Append(t, r) : t \in Tables(rows, n - 1), r \in rows}

\* Detections of two employees around the call: 7, 5, 3 and 0 seconds before it
PresenceOffsets == {-7, -5, -3, 0}

PresenceTables ==
    Tables({Detection(e, LocalDate(Ticks[1]), Ticks[1] * SecondsPerMinute + o) :
                e \in {1, 2}, o \in PresenceOffsets},
           MaxDetections)

\* The presence columns of a shift_settings row: integers, NULL allowed
PresenceColumns ==
    [presence_time : {NULL, 2}, presence_count : {NULL, 0, 1, 2, 3}, presence_window : {NULL, 3}]

PresenceArgs ==
    [fn : {"presence"}, employeeId : {1}, date : {LocalDate(Ticks[1])},
     row : PresenceColumns, storeFails : BOOLEAN, done : {FALSE}, result : {FALSE}]

\* checkPresenceRequirement called with the thresholds of the matched shift
CheckPresence ==
    /\ call.fn = "presence"
    /\ ~call.done
    /\ call' = [call EXCEPT
                    !.done = TRUE,
                    !.result = checkPresenceRequirement(
                                    presence_detections, call.employeeId, call.date,
                                    OrDefault(call.row.presence_time, 3),
                                    OrDefault(call.row.presence_count, 3),
                                    OrDefault(call.row.presence_window, 5),
                                    now * SecondsPerMinute, call.storeFails)]
    /\ UNCHANGED <<now, shift_settings, records, punch, swA, swB, resp, calc,
                   presence_detections, enforcePresence, notif, timers>>

----------------------------------------------------------------------------
(* POST /mark step by step: the shift load and the lookup, the presence
   check, the write, the notifications and the response *)

\* The request of employee e at its arrival: what the handler holds
MarkRequest(e, pc, shifts, id, in_time, status) ==
    [pc |-> pc, employee_id |-> e, timestampStr |-> ClientTimestamp(now),
     date |-> LocalDate(now), shifts |-> shifts,
     record |-> [attendance_id |-> id, in_time |-> in_time],
     status |-> status, presenceError |-> FALSE, presenceValid |-> FALSE]

\* the failed send handed to the handler's catch: a 500
StatusAfterNotifications_Awaited(status, n) ==
    IF n.email = "failed" \/ n.whatsapp = "failed" THEN 500 ELSE status

\* triggerAttendanceNotifications(...).catch(log): whatever the senders do,
\* the status the handler answers with is the one of the write
StatusAfterNotifications(status, n) == status

\* The face is matched to employee e and the shifts of the category are
\* loaded: 400 without shifts; else the incomplete record is looked up, and a
\* checkout not after its check-in is answered 400
MarkLookup(e) ==
    /\ punch = PunchIdle
    /\ resp = NoResp
    /\ LET shifts == shift_settings
           timestampStr == ClientTimestamp(now)
           found == IncompleteRecord(records, e, LocalDate(now))
       IN  IF Len(shifts) = 0
           THEN punch' = MarkRequest(e, "respond", shifts, 0, NULL, 400)
           ELSE IF found # {}
           THEN \E id \in found :
                    IF NewDate(timestampStr) <= NewDate(records[id].in_time)
                    THEN punch' = MarkRequest(e, "respond", shifts, id, records[id].in_time, 400)
                    ELSE punch' = MarkRequest(e, "checkout", shifts, id, records[id].in_time, 0)
           ELSE /\ Len(presence_detections) < MaxDetections
                /\ punch' = MarkRequest(e, "checkin", shifts, 0, NULL, 0)
    /\ UNCHANGED <<now, shift_settings, records, swA, swB, resp, calc,
                   call, presence_detections, enforcePresence, notif, timers>>

\* Checkout branch: completed count, metrics (the shifts are loaded again by
\* the calculator), UPDATE
MarkCheckout ==
    /\ punch.pc = "checkout"
    /\ LET isOTShift == \E i \in DOMAIN records :
                            /\ records[i].employee_id = punch.employee_id
                            /\ records[i].attendance_date = punch.date
                            /\ records[i].out_time # NULL
           metrics == calculateAttendanceMetrics(
                          punch.record.in_time, punch.timestampStr, shift_settings, isOTShift)
       IN  records' = UpdateCheckout(records, punch.record.attendance_id,
                                     punch.timestampStr, metrics)
    /\ punch' = [punch EXCEPT !.pc = "notify", !.status = 200]
    /\ UNCHANGED <<now, shift_settings, swA, swB, resp, calc,
                   call, presence_detections, enforcePresence, notif, timers>>

\* Check-in branch: the detection of this frame is recorded, then, with
\* enforcement on, the presence requirement is checked.  recordFails,
\* checkFails: the query of recordPresenceDetection, of
\* checkPresenceRequirement throws, and the function's catch takes it.
MarkPresenceStep(recordFails, checkFails) ==
    /\ punch.pc = "checkin"
    /\ LET matchShift == findShiftForPunchWithGrace(
                                NewDate(punch.timestampStr), punch.shifts).shift
           detections ==
                IF recordFails THEN presence_detections
                ELSE Append(presence_detections,
                            Detection(punch.employee_id, punch.date,
                                      CastTimestamp(punch.timestampStr) * SecondsPerMinute))
           presenceValid ==
                checkPresenceRequirement(detections, punch.employee_id, punch.date,
                    matchShift.presenceTime, matchShift.presenceCount,
                    matchShift.presenceWindow, now * SecondsPerMinute, checkFails)
       IN  /\ presence_detections' = detections
           /\ IF enforcePresence
              THEN punch' = [punch EXCEPT
                                !.presenceError = checkFails,
                                !.presenceValid = presenceValid,
                                !.pc = IF presenceValid THEN "insert" ELSE "respond",
                                !.status = IF presenceValid THEN 0 ELSE 400]
              ELSE punch' = [punch EXCEPT !.pc = "insert"]
    /\ UNCHANGED <<now, shift_settings, records, swA, swB, resp, calc,
                   call, enforcePresence, notif, timers>>

\* ... with the presence store answering
MarkPresence == MarkPresenceStep(FALSE, FALSE)

\* ... with the presence store failing at one of the two queries or at both
MarkPresenceFail ==
    \E recordFails, checkFails \in BOOLEAN :
        /\ recordFails \/ checkFails
        /\ MarkPresenceStep(recordFails, checkFails)

\* Check-in branch: the delay, then the INSERT
MarkInsert ==
    /\ punch.pc = "insert"
    /\ Len(records) < MaxRecords
    /\ LET checkInTime == NewDate(punch.timestampStr)
           matchShift == findShiftForPunchWithGrace(checkInTime, punch.shifts).shift
       IN  records' = Append(records,
                Row(punch.employee_id, punch.date, CastTimestamp(punch.timestampStr), NULL,
                    DelayAtCheckIn(checkInTime, matchShift)))
    /\ punch' = [punch EXCEPT !.pc = "notify", !.status = 201]
    /\ UNCHANGED <<now, shift_settings, swA, swB, resp, calc,
                   call, presence_detections, enforcePresence, notif, timers>>

\* triggerAttendanceNotifications: the email and the WhatsApp send are
\* started and not awaited
MarkNotify ==
    /\ punch.pc = "notify"
    /\ notif' = [email |-> "pending", whatsapp |-> "pending"]
    /\ punch' = [punch EXCEPT !.pc = "respond"]
    /\ UNCHANGED <<now, shift_settings, records, swA, swB, resp, calc,
                   call, presence_detections, enforcePresence, timers>>

\* A sender finishes: the message is sent, or the send fails (and is logged)
NotifySettle ==
    /\ \E channel \in {"email", "whatsapp"}, outcome \in {"sent", "failed"} :
        /\ notif[channel] = "pending"
        /\ notif' = [notif EXCEPT ![channel] = outcome]
    /\ UNCHANGED <<now, shift_settings, records, punch, swA, swB, resp, calc,
                   call, presence_detections, enforcePresence, timers>>

\* res.status(...).json(...): the answer of the branch; resp holds it until
\* it has left
MarkRespond ==
    /\ punch.pc = "respond"
    /\ resp = NoResp
    /\ resp' = [kind |-> "mark", rows |-> <<>>,
                status |-> IF punch.status \in {200, 201}
                           THEN StatusAfterNotifications(punch.status, notif)
                           ELSE punch.status]
    /\ punch' = PunchIdle
    /\ UNCHANGED <<now, shift_settings, records, swA, swB, calc,
                   call, presence_detections, enforcePresence, notif, timers>>

----------------------------------------------------------------------------
(* The shift settings routes *)

\* DELETE /api/shifts/:id: one row of shift_settings is deleted
DeleteShift ==
    /\ Idle
    /\ \E i \in DOMAIN shift_settings :
        shift_settings' = SubSeq(shift_settings, 1, i - 1)
                            \o SubSeq(shift_settings, i + 1, Len(shift_settings))
    /\ UNCHANGED <<now, records, punch, swA, swB, resp, calc, others>>

----------------------------------------------------------------------------
(* The absence marker on its timer *)

\* The callback of the hourly timer: a whole run of processAbsentMarking.
\* `call` keeps the instant of the last run. A run inserts at most one row
\* for an employee, so the instants of the clock bound the table.
MarkAbsentCycle ==
    /\ resp = NoResp
    /\ call # [fn |-> "processAbsentMarking", now |-> now]
    /\ call' = [fn |-> "processAbsentMarking", now |-> now]
    /\ records' = processAbsentMarking(records, shift_settings, now)
    /\ UNCHANGED <<now, shift_settings, punch, swA, swB, resp, calc,
                   presence_detections, enforcePresence, notif, timers>>

\* The clock moves on once the timer has fired at the present instant: the
\* timer's period (one hour) is shorter than the steps of the clock
TickAfterCycle ==
    /\ call = [fn |-> "processAbsentMarking", now |-> now]
    /\ Tick

----------------------------------------------------------------------------
(* Store failures in the background runs *)

\* the catch block passing the error on
Caught_Rethrown(ts, run) == [ts EXCEPT ![run] = "uncaught"]

\* try { ... } catch (e) { console.error(...) } around the whole body of
\* autoCheckoutOverdue, autoCheckoutOverdueShifts, processAbsentMarking and
\* markAbsentForShift, and inside getAllShifts and getCompletedCount
Caught(ts, run) ==
    IF ts[run] = "uncaught" THEN ts ELSE [ts EXCEPT ![run] = "caught"]

\* The queries of one pass of a sweeper loop that can throw
SweepFaults == {"getAllShifts", "calculateAttendanceMetrics", "UPDATE"}

\* One pass of the loop body of autoCheckoutOverdue in which the query
\* `fault` throws: getAllShifts returns [] and the row is skipped; the reload
\* of the shifts inside calculateAttendanceMetrics returns [] and the zero
\* metrics are written; the UPDATE throws and the run ends in its catch block
SweepARowFault(recs, row, shifts, t, fault) ==
    LET inTime == NewDate(row.in_time)
        endWithGrace == getShiftEndWithGrace(inTime, ShiftOf(inTime, shifts))
    IN  IF fault = "calculateAttendanceMetrics"
        THEN UpdateCheckout(recs, row.attendance_id, toISOString(endWithGrace),
                            ZERO_METRICS)
        ELSE recs

\* Whether the pass over `row` gets as far as the query `fault`
SweepAReaches(row, shifts, t, fault) ==
    \/ fault = "getAllShifts"
    \/ /\ Len(shifts) > 0
       /\ LET inTime == NewDate(row.in_time)
          IN  t >= getShiftEndWithGrace(inTime, ShiftOf(inTime, shifts))

\* The SELECT of the open rows throws
SweepASelectFail ==
    /\ swA.pc = "idle"
    /\ resp = NoResp
    /\ timers' = Caught(timers, "autoCheckoutOverdue")
    /\ UNCHANGED <<now, shift_settings, records, punch, swA, swB, resp, calc,
                   call, presence_detections, enforcePresence, notif>>

SweepAStepFail ==
    /\ swA.pc = "loop"
    /\ \E fault \in SweepFaults :
        /\ SweepAReaches(Head(swA.rows), shift_settings, swA.now, fault)
        /\ records' = SweepARowFault(records, Head(swA.rows), shift_settings,
                                     swA.now, fault)
        /\ swA' = IF Len(swA.rows) = 1 \/ fault = "UPDATE" THEN SweepIdle
                  ELSE [swA EXCEPT !.rows = Tail(swA.rows)]
    /\ timers' = Caught(timers, "autoCheckoutOverdue")
    /\ UNCHANGED <<now, shift_settings, punch, swB, resp, calc,
                   call, presence_detections, enforcePresence, notif>>

\* The same pass of autoCheckoutOverdueShifts
SweepBRowFault(recs, row, shifts, t, fault) ==
    LET inTime == NewDate(row.in_time)
        autoCheckoutTime == AutoCheckoutTimeB(inTime, ShiftOf(inTime, shifts))
    IN  IF fault = "calculateAttendanceMetrics"
        THEN UpdateCheckout(recs, row.attendance_id, toISOString(autoCheckoutTime),
                            ZERO_METRICS)
        ELSE recs

SweepBReaches(row, shifts, t, fault) ==
    \/ fault = "getAllShifts"
    \/ /\ Len(shifts) > 0
       /\ LET inTime == NewDate(row.in_time)
          IN  t >= AutoCheckoutTimeB(inTime, ShiftOf(inTime, shifts))

\* processAbsentMarking when the queries of markAbsentForShift throw for the
\* shifts of `failing`: the marking of such a shift ends in its catch block
\* before its INSERT, the other shifts are processed
RECURSIVE processAbsentMarkingFault(_, _, _, _, _)
processAbsentMarkingFault(recs, shifts, k, failing, t) ==
    IF k > Len(shifts) THEN recs
    ELSE processAbsentMarkingFault(
            IF k \in failing THEN recs
            ELSE markAbsentForShift(recs, shifts[k], UTCDate(t), t),
            shifts, k + 1, failing, t)

\* Whether markAbsentForShift gets as far as its queries
ShiftEnded(shift, date, t) ==
    LET endOfDate == date * MinutesPerDay + shift.endHour * 60 + shift.endMinute
    IN  t >= (IF shift.endHour * 60 + shift.endMinute
                    < shift.startHour * 60 + shift.startMinute
              THEN endOfDate + MinutesPerDay ELSE endOfDate)

\* A run of the absence marker in which SELECT DISTINCT or getAllShifts
\* throws (no shift is processed) or the queries of one ended shift throw
MarkAbsentFail ==
    /\ resp = NoResp
    /\ \E failing \in {DOMAIN shift_settings}
                        \cup {{k} : k \in {j \in DOMAIN shift_settings :
                                    ShiftEnded(shift_settings[j], UTCDate(now), now)}} :
        LET marked == processAbsentMarkingFault(records, shift_settings, 1, failing, now)
        IN  /\ Len(marked) <= MaxRecords
            /\ records' = marked
    /\ timers' = Caught(timers, "processAbsentMarking")
    /\ UNCHANGED <<now, shift_settings, punch, swA, swB, resp, calc,
                   call, presence_detections, enforcePresence, notif>>

----------------------------------------------------------------------------
(* The specifications *)

StoreCatalogs == { <<DayShift, NightShift>> }

InitStore ==
    /\ now = Ticks[1]
    /\ shift_settings \in StoreCatalogs
    /\ records = <<>>
    /\ punch = PunchIdle
    /\ swA = SweepIdle
    /\ swB = SweepIdle
    /\ resp = NoResp
    /\ calc = CalcIdle
    /\ call = CallIdle
    /\ presence_detections = <<>>
    /\ enforcePresence = FALSE
    /\ notif = NoNotif
    /\ timers = TimersOk

\* The calculator alone, on every argument of CalcArgs
InitCalc ==
    /\ calc \in CalcArgs
    /\ now = 0
    /\ shift_settings = <<>>
    /\ records = <<>>
    /\ punch = PunchIdle
    /\ swA = SweepIdle
    /\ swB = SweepIdle
    /\ resp = NoResp
    /\ call = CallIdle
    /\ presence_detections = <<>>
    /\ enforcePresence = FALSE
    /\ notif = NoNotif
    /\ timers = TimersOk

\* The shift matcher alone, on every argument of MatchArgs
InitMatch ==
    /\ call \in MatchArgs
    /\ now = 0
    /\ shift_settings = <<>>
    /\ records = <<>>
    /\ punch = PunchIdle
    /\ swA = SweepIdle
    /\ swB = SweepIdle
    /\ resp = NoResp
    /\ calc = CalcIdle
    /\ presence_detections = <<>>
    /\ enforcePresence = FALSE
    /\ notif = NoNotif
    /\ timers = TimersOk

\* The presence check alone, on every table of PresenceTables
InitPresence ==
    /\ call \in PresenceArgs
    /\ presence_detections \in PresenceTables
    /\ now = Ticks[1]
    /\ shift_settings = <<>>
    /\ records = <<>>
    /\ punch = PunchIdle
    /\ swA = SweepIdle
    /\ swB = SweepIdle
    /\ resp = NoResp
    /\ calc = CalcIdle
    /\ enforcePresence = TRUE
    /\ notif = NoNotif
    /\ timers = TimersOk

NextPresence == CheckPresence

SpecPresence == InitPresence /\ [][NextPresence]_vars

\* POST /mark step by step, with presence enforcement on or off
InitMark ==
    /\ now = Ticks[1]
    /\ shift_settings \in StoreCatalogs
    /\ enforcePresence \in BOOLEAN
    /\ records = <<>>
    /\ punch = PunchIdle
    /\ swA = SweepIdle
    /\ swB = SweepIdle
    /\ resp = NoResp
    /\ calc = CalcIdle
    /\ call = CallIdle
    /\ presence_detections = <<>>
    /\ notif = NoNotif
    /\ timers = TimersOk

NextMark ==
    \/ Tick
    \/ \E e \in Employees : MarkLookup(e)
    \/ MarkCheckout
    \/ MarkPresence
    \/ MarkPresenceFail
    \/ MarkInsert
    \/ MarkNotify
    \/ NotifySettle
    \/ MarkRespond
    \/ ResponseSent

SpecMark == InitMark /\ [][NextMark]_vars

\* POST /mark and the 5-minute sweeper of its service while shifts are
\* deleted, and the calculator on every argument of CalcArgs
NextEmpty ==
    \/ Tick
    \/ \E e \in Employees : MarkLookup(e)
    \/ MarkCheckout
    \/ MarkPresence
    \/ MarkInsert
    \/ MarkNotify
    \/ MarkRespond
    \/ ResponseSent
    \/ DeleteShift
    \/ SweepASelect
    \/ SweepAStep
    \/ Calculate

SpecEmpty == (InitStore \/ InitCalc) /\ [][NextEmpty]_vars

NextMatch == Match

SpecMatch == InitMatch /\ [][NextMatch]_vars

NextCalc == Calculate

SpecCalc == InitCalc /\ [][NextCalc]_vars

Init == InitStore \/ InitCalc

Next ==
    \/ Tick
    \/ \E e \in Employees : PunchLookup(e)
    \/ PunchCheckout
    \/ PunchCheckIn
    \/ SweepASelect
    \/ SweepAStep
    \/ SweepBSelect
    \/ SweepBStep
    \/ MarkAbsent
    \/ ReportOfAttendanceRoutes
    \/ ReportOfReportRoutes
    \/ DetailedReport
    \/ ResponseSent
    \/ AdminSetOT
    \/ Calculate

Spec == Init /\ [][Next]_vars

----------------------------------------------------------------------------
(* The same handlers, each run from its first statement to its last without
   another one in between *)

RECURSIVE SweepARows(_, _, _, _)
SweepARows(recs, rows, shifts, t) ==
    IF rows = <<>> THEN recs
    ELSE SweepARows(SweepARow(recs, Head(rows), shifts, t), Tail(rows), shifts, t)

RECURSIVE SweepBRows(_, _, _, _)
SweepBRows(recs, rows, shifts, t) ==
    IF rows = <<>> THEN recs
    ELSE SweepBRows(SweepBRow(recs, Head(rows), shifts, t), Tail(rows), shifts, t)

\* A whole run of autoCheckoutOverdue; swA keeps the rows it selected and
\* the `now` it read
SweepARun ==
    /\ swA' = [pc |-> "idle", rows |-> Snapshot(records, OpenRows(records)), now |-> now]
    /\ swA' # swA
    /\ records' = SweepARows(records, swA'.rows, shift_settings, now)
    /\ UNCHANGED <<now, shift_settings, punch, swB, resp, calc, others>>

\* A whole run of autoCheckoutOverdueShifts
SweepBRun ==
    /\ swB' = [pc |-> "idle", rows |-> Snapshot(records, OpenRows(records)), now |-> now]
    /\ swB' # swB
    /\ records' = SweepBRows(records, swB'.rows, shift_settings, now)
    /\ UNCHANGED <<now, shift_settings, punch, swA, resp, calc, others>>

\* A whole POST /mark
PunchRun(e) ==
    /\ Len(shift_settings) > 0
    /\ LET timestampStr == ClientTimestamp(now)
           date == LocalDate(now)
           found == IncompleteRecord(records, e, date)
           checkInTime == NewDate(timestampStr)
       IN  IF found # {}
           THEN \E id \in found :
                    /\ checkInTime > NewDate(records[id].in_time)
                    /\ records' = UpdateCheckout(records, id, timestampStr,
                            calculateAttendanceMetrics(records[id].in_time, timestampStr,
                                shift_settings,
                                \E i \in DOMAIN records :
                                    /\ records[i].employee_id = e
                                    /\ records[i].attendance_date = date
                                    /\ records[i].out_time # NULL))
           ELSE /\ Len(records) < MaxRecords
                /\ records' = Append(records,
                        Row(e, date, CastTimestamp(timestampStr), NULL,
                            DelayAtCheckIn(checkInTime,
                                findShiftForPunchWithGrace(checkInTime, shift_settings).shift)))
    /\ UNCHANGED <<now, shift_settings, punch, swA, swB, resp, calc, others>>

NextSeq ==
    \/ Tick
    \/ \E e \in Employees : PunchRun(e)
    \/ SweepARun
    \/ SweepBRun
    \/ MarkAbsent

SpecSeq == InitStore /\ [][NextSeq]_vars

\* A whole run of autoCheckoutOverdueShifts in which the query `fault` of the
\* pass over the k-th selected row throws; the passes before it are complete
RECURSIVE SweepBRowsFault(_, _, _, _, _, _)
SweepBRowsFault(recs, rows, shifts, t, k, fault) ==
    IF k > 1
    THEN SweepBRowsFault(SweepBRow(recs, Head(rows), shifts, t), Tail(rows),
                         shifts, t, k - 1, fault)
    ELSE IF fault = "UPDATE" THEN recs
         ELSE SweepBRows(SweepBRowFault(recs, Head(rows), shifts, t, fault),
                         Tail(rows), shifts, t)

\* A run of autoCheckoutOverdueShifts in which the SELECT of the open rows
\* throws (k = 0) or a query of the pass over the k-th row does
SweepBRunFail ==
    /\ \E k \in 0..Len(OpenRows(records)) :
        LET rows == Snapshot(records, OpenRows(records))
        IN  IF k = 0
            THEN records' = records
            ELSE \E fault \in SweepFaults :
                 /\ SweepBReaches(rows[k], shift_settings, now, fault)
                 /\ records' = SweepBRowsFault(records, rows, shift_settings,
                                               now, k, fault)
    /\ timers' = Caught(timers, "autoCheckoutOverdueShifts")
    /\ UNCHANGED <<now, shift_settings, punch, swA, swB, resp, calc,
                   call, presence_detections, enforcePresence, notif>>

\* The 5-minute sweeper step by step and whole runs of the absence marker,
\* with store failures; whole runs of the hourly sweeper that meet one
NextFault ==
    \/ Tick
    \/ \E e \in Employees : PunchRun(e)
    \/ SweepASelect
    \/ SweepAStep
    \/ SweepASelectFail
    \/ SweepAStepFail
    \/ SweepBRunFail
    \/ MarkAbsent
    \/ MarkAbsentFail

SpecFault == InitStore /\ [][NextFault]_vars

\* A pass of the 5-minute sweeper meets a store failure, once: the store is
\* available again afterwards
SweepAStepFailOnce ==
    /\ timers.autoCheckoutOverdue = "ok"
    /\ SweepAStepFail

\* The run of a sweeper moves on by a pass over its next row, whatever the
\* pass does to the row
SweepAPass ==
    /\ swA.pc = "loop"
    /\ swA' \in {SweepIdle, [swA EXCEPT !.rows = Tail(swA.rows)]}

SweepBPass ==
    /\ swB.pc = "loop"
    /\ swB' \in {SweepIdle, [swB EXCEPT !.rows = Tail(swB.rows)]}

\* The Mark service: punches and both sweepers on their timers for ever
NextSweep ==
    \/ Tick
    \/ \E e \in Employees : PunchRun(e)
    \/ SweepASelect
    \/ SweepAStep
    \/ SweepAStepFailOnce
    \/ SweepBSelect
    \/ SweepBStep

\* Each timer starts its run again and again, and a run that has started
\* goes through its rows
SpecSweep ==
    /\ InitStore
    /\ [][NextSweep]_vars
    /\ WF_vars(SweepASelect)
    /\ WF_swA(SweepAPass)
    /\ WF_vars(SweepBSelect)
    /\ WF_swB(SweepBPass)

\* The categories the absence marker is run on
LiveCatalogs == { <<DayShift, NightShift>>, <<DayShift>>, <<NightShift>> }

InitLive ==
    /\ now = Ticks[1]
    /\ shift_settings \in LiveCatalogs
    /\ records = <<>>
    /\ punch = PunchIdle
    /\ swA = SweepIdle
    /\ swB = SweepIdle
    /\ resp = NoResp
    /\ calc = CalcIdle
    /\ call = CallIdle
    /\ presence_detections = <<>>
    /\ enforcePresence = FALSE
    /\ notif = NoNotif
    /\ timers = TimersOk

\* Punches and the absence marker firing on its timer for ever
NextLive ==
    \/ TickAfterCycle
    \/ \E e \in Employees : PunchRun(e)
    \/ MarkAbsentCycle

SpecLive == InitLive /\ [][NextLive]_vars /\ WF_vars(MarkAbsentCycle)

----------------------------------------------------------------------------
(* Claims about the calculator, checked under SpecCalc *)

CalcValidCall ==
    /\ calc.done
    /\ calc.inTimeStr \notin {NULL, INVALID}
    /\ calc.outTimeStr \notin {NULL, INVALID}
    /\ calc.outTimeStr > calc.inTimeStr
    /\ Len(calc.shifts) > 0

\* C5: for every pair with checkout <= checkin, and for every pair in which a
\* timestamp is missing or unparsable, the calculator returns all-zero
\* metrics (delay 0, extra time 0, total hours 0, OT 0).
C5_ZeroOnInvalidRange ==
    ( /\ calc.done
      /\ \/ calc.inTimeStr \in {NULL, INVALID}
         \/ calc.outTimeStr \in {NULL, INVALID}
         \/ calc.outTimeStr <= calc.inTimeStr )
    => /\ calc.result.delay_by_minutes = 0
       /\ calc.result.extra_time_minutes = 0
       /\ calc.result.total_working_hours_decimal = 0
       /\ calc.result.ot_hours_decimal = 0

\* A late check-in (10:00 for the 09:00 shift) with a checkout at the same instant
C5_Witness ==
    /\ calc.done
    /\ calc.shifts = <<DayShift>>
    /\ calc.inTimeStr = MinutesPerDay + 600
    /\ calc.outTimeStr = calc.inTimeStr
    /\ calc.result = ZERO_METRICS

\* C7: overtime is non-zero iff checkout > shiftEnd + graceAfter and
\* checkout - shiftEnd >= MIN_OT_MINUTES; when non-zero it is the time from the
\* shift end (not from the end of the grace) to the checkout, in hours with
\* two decimals.  Shift 09:00-17:00, graceAfter 30: checkout 17:45 gives
\* 0.75 h, a checkout at or before 17:30 gives 0.
C7_OvertimeRule ==
    CalcValidCall =>
        LET shift == ShiftOf(calc.inTimeStr, calc.shifts)
            dayStart == calc.inTimeStr - (calc.inTimeStr % MinutesPerDay)
            endOfDay == dayStart + shift.endHour * 60 + shift.endMinute
            startOfDay == dayStart + shift.startHour * 60 + shift.startMinute
            shiftEnd == IF endOfDay <= startOfDay THEN endOfDay + MinutesPerDay ELSE endOfDay
            fromEnd == calc.outTimeStr - shiftEnd
            eligible == calc.outTimeStr > shiftEnd + shift.graceAfter
                        /\ fromEnd >= MIN_OT_MINUTES
        IN  /\ (calc.result.ot_hours_decimal # 0) <=> eligible
            /\ eligible => calc.result.ot_hours_decimal * 60 \in
                               (fromEnd * 100 - 30)..(fromEnd * 100 + 30)
            /\ ( /\ calc.shifts = <<DayShift>>
                 /\ calc.inTimeStr = MinutesPerDay + 530 ) =>
                    /\ calc.outTimeStr = MinutesPerDay + 1065
                            => calc.result.ot_hours_decimal = 75
                    /\ calc.outTimeStr <= MinutesPerDay + 1050
                            => calc.result.ot_hours_decimal = 0

\* 09:00-17:00, graceAfter 30, in 08:50, out 17:45: 45 minutes, 0.75 h
C7_Witness ==
    /\ calc.done
    /\ calc.shifts = <<DayShift>>
    /\ calc.inTimeStr = MinutesPerDay + 530
    /\ calc.outTimeStr = MinutesPerDay + 1065
    /\ calc.result.ot_hours_decimal = 75

\* C8: for an overnight shift and a check-in on day D at or after the shift's
\* start, the shift end is the end time-of-day on day D+1; a checkout N
\* minutes after it gives extra_time_minutes = N and total hours =
\* checkout - checkin (22:00-06:00, in 23:30, out 06:10: extra 10, 400
\* minutes = 6.67 h).
C8_OvernightEnd ==
    CalcValidCall =>
        LET shift == ShiftOf(calc.inTimeStr, calc.shifts)
            startMinutes == shift.startHour * 60 + shift.startMinute
            endMinutes == shift.endHour * 60 + shift.endMinute
            dayD == calc.inTimeStr \div MinutesPerDay
            endNextDay == (dayD + 1) * MinutesPerDay + endMinutes
            worked == calc.outTimeStr - calc.inTimeStr
        IN  ( /\ endMinutes < startMinutes
              /\ calc.inTimeStr % MinutesPerDay >= startMinutes ) =>
                /\ buildShiftEndTime(calc.inTimeStr, shift) = endNextDay
                /\ calc.outTimeStr > endNextDay =>
                        calc.result.extra_time_minutes = calc.outTimeStr - endNextDay
                /\ calc.result.total_working_hours_decimal * 60 \in
                        (worked * 100 - 30)..(worked * 100 + 30)

\* 22:00-06:00, in 23:30 on day 1, out 06:10 on day 2
C8_Witness ==
    /\ calc.done
    /\ calc.shifts = <<DayShift, NightShift>>
    /\ calc.inTimeStr = MinutesPerDay + 1410
    /\ calc.outTimeStr = 2 * MinutesPerDay + 370
    /\ calc.result.extra_time_minutes = 10
    /\ calc.result.total_working_hours_decimal = 667

----------------------------------------------------------------------------
(* Claims about the store *)

Closed(r) == r.out_time # NULL

\* h hundredths of an hour is m minutes, rounded to the nearest hundredth
IsHours(h, m) == h * 60 \in (m * 100 - 30)..(m * 100 + 30)

SameClose(r, q) ==
    /\ q.out_time = r.out_time
    /\ q.delay_by_minutes = r.delay_by_minutes
    /\ q.extra_time_minutes = r.extra_time_minutes
    /\ q.total_working_hours_decimal = r.total_working_hours_decimal

\* C1: under any interleaving of a punch checkout and the sweepers on the
\* same record (one with a check-in), once the record's check-out is non-null
\* no later write of a punch checkout or of a sweeper changes the check-out
\* or the metrics stored with it.
C1_CloseOnlyIfOpen ==
    [][ (PunchCheckout \/ SweepAStep \/ SweepBStep) =>
            \A i \in DOMAIN records :
                (records[i].in_time # NULL /\ Closed(records[i]))
                    => SameClose(records[i], records'[i]) ]_vars

\* C2: a sweeper run changes no record that is already closed (so a record
\* is closed at most once), and running the same sweeper again right after
\* changes nothing.
C2_SweepIdempotent ==
    [][ /\ (SweepARun \/ SweepBRun) =>
            \A i \in DOMAIN records : Closed(records[i]) => records'[i] = records[i]
        /\ SweepARun =>
            SweepARows(records', Snapshot(records', OpenRows(records')),
                       shift_settings, now) = records'
        /\ SweepBRun =>
            SweepBRows(records', Snapshot(records', OpenRows(records')),
                       shift_settings, now) = records' ]_vars

\* The last run of the 5-minute sweeper found no open row, and a record it
\* closed in an earlier run, at shift end + grace, is as that run left it
C2_Witness ==
    /\ swA.now = now
    /\ swA.rows = <<>>
    /\ \E i \in DOMAIN records :
        /\ records[i].in_time # NULL
        /\ records[i].out_time > records[i].in_time
        /\ records[i].out_time =
              getShiftEndWithGrace(records[i].in_time,
                                   ShiftOf(records[i].in_time, shift_settings))

\* What a sweeper run at instant t must do to the open record r, q being the
\* record after the run, for the deadline of that sweeper
SweptAtDeadline(r, q, deadline, t) ==
    IF t < deadline THEN q = r
    ELSE LET m == calculateAttendanceMetrics(r.in_time, deadline, shift_settings, FALSE)
         IN  /\ q.out_time = deadline
             /\ q.out_time # t
             /\ q.delay_by_minutes = m.delay_by_minutes
             /\ q.extra_time_minutes = m.extra_time_minutes
             /\ q.total_working_hours_decimal = m.total_working_hours_decimal
             /\ q.in_time = r.in_time

C4_OneAbsenceRow ==
    \A i, k \in DOMAIN records :
        ( /\ records[i].in_time = NULL
          /\ records[k].in_time = NULL
          /\ records[i].employee_id = records[k].employee_id
          /\ records[i].attendance_date = records[k].attendance_date ) => i = k

\* C6: delay_by_minutes and extra_time_minutes are never negative, in every
\* result of the calculator and in every record of the store.
C6_NonNegative ==
    /\ calc.result.delay_by_minutes >= 0
    /\ calc.result.extra_time_minutes >= 0
    /\ \A i \in DOMAIN records :
        /\ records[i].delay_by_minutes = NULL \/ records[i].delay_by_minutes >= 0
        /\ records[i].extra_time_minutes = NULL \/ records[i].extra_time_minutes >= 0

\* A check-in ten minutes before the shift start, closed before the shift end
C6_Witness ==
    \E i \in DOMAIN records :
        /\ records[i].in_time = MinutesPerDay + 530
        /\ records[i].out_time = MinutesPerDay + 600
        /\ records[i].delay_by_minutes = 0
        /\ records[i].extra_time_minutes = 0

\* C9: total hours of the detailed report: stored OT X > 0 gives
\* (checkout - checkin) + X whatever the auto-calculation gives; else
\* auto-calculated OT > 0 gives regular shift hours + auto OT; else
\* checkout - checkin.  (Rows with a check-in, a later check-out and a
\* configured shift.)
C9_ThreeWayTotal ==
    resp.kind = "detailed" =>
        \A k \in DOMAIN resp.rows :
            LET o == resp.rows[k]
                r == o.row
                X == r.ot_hours_decimal
                auto == calculateAttendanceMetrics(
                            r.in_time, r.out_time, shift_settings, FALSE).ot_hours_decimal
                shift == ShiftOf(r.in_time, shift_settings)
                shiftStart == buildLocalTime(r.in_time, shift.startHour, shift.startMinute)
                shiftEnd == buildShiftEndTime(r.in_time, shift)
                regular == IF r.out_time >= shiftEnd THEN shiftEnd - shiftStart
                           ELSE r.out_time - shiftStart
            IN  ( /\ r.in_time # NULL
                  /\ r.out_time # NULL
                  /\ r.out_time > r.in_time
                  /\ Len(shift_settings) > 0 ) =>
                    IF X > 0 THEN IsHours(o.total_working_hours_decimal - X,
                                          r.out_time - r.in_time)
                    ELSE IF auto > 0
                         THEN IsHours(o.total_working_hours_decimal - auto, regular)
                         ELSE IsHours(o.total_working_hours_decimal, r.out_time - r.in_time)

\* In 08:50, out 17:45 (auto OT 0.75 h), manual OT 1.50 h: 8.92 + 1.50
C9_Witness ==
    /\ resp.kind = "detailed"
    /\ \E k \in DOMAIN resp.rows :
        /\ resp.rows[k].row.in_time = MinutesPerDay + 530
        /\ resp.rows[k].row.out_time = MinutesPerDay + 1065
        /\ resp.rows[k].row.ot_hours_decimal = 150
        /\ resp.rows[k].total_working_hours_decimal = 1042

\* C10: once a record's overtime hours X > 0 are set manually, no step
\* replaces the stored X, and every report that recomputes the record's
\* metrics afterwards gives X as its overtime hours.
C10_ManualOTWins ==
    [][ /\ \A i \in DOMAIN records :
            records[i].ot_hours_decimal > 0 =>
                records'[i].ot_hours_decimal = records[i].ot_hours_decimal
        /\ resp'.kind # "none" =>
            \A k \in DOMAIN resp'.rows :
                ( /\ Recalculable(resp'.rows[k].row)
                  /\ resp'.rows[k].row.ot_hours_decimal > 0 ) =>
                    resp'.rows[k].ot_hours_decimal = resp'.rows[k].row.ot_hours_decimal
      ]_vars

----------------------------------------------------------------------------
(* Claims about the shift matcher, checked under SpecMatch *)

MatchDone == call.fn = "match" /\ call.done

StartMinutes(shift) == shift.startHour * 60 + shift.startMinute
EndMinutes(shift) == shift.endHour * 60 + shift.endMinute

\* The time of day t lies in the shift's window, start and end included
Contains(shift, t) ==
    IF EndMinutes(shift) < StartMinutes(shift)
    THEN t >= StartMinutes(shift) \/ t <= EndMinutes(shift)
    ELSE t >= StartMinutes(shift) /\ t <= EndMinutes(shift)

\* The instant lies between start - graceBefore and end + graceAfter, the
\* start taken on the instant's day and the end after the start
InGraceWindow(shift, time) ==
    LET day == time - (time % MinutesPerDay)
        startAt == day + StartMinutes(shift)
        endAt == IF EndMinutes(shift) <= StartMinutes(shift)
                 THEN day + MinutesPerDay + EndMinutes(shift)
                 ELSE day + EndMinutes(shift)
    IN  time >= startAt - shift.graceBefore /\ time <= endAt + shift.graceAfter

\* C11: for every overnight shift (end < start) of a catalog, every time of
\* day t >= start (up to 23:59) and every t <= end (from 00:00) is classified
\* by detectShiftForTime as that shift, when no earlier shift of the catalog
\* contains t.
C11_OvernightContainment ==
    MatchDone =>
        \A i \in 1..Len(call.shifts) :
            LET shift == call.shifts[i]
                t == call.time % MinutesPerDay
            IN  ( /\ EndMinutes(shift) < StartMinutes(shift)
                  /\ t >= StartMinutes(shift) \/ t <= EndMinutes(shift)
                  /\ \A k \in 1..(i - 1) : ~Contains(call.shifts[k], t) )
                => call.detected = i

\* 02:00 with the catalog 09:00-17:00, 22:00-06:00: the second shift
C11_Witness ==
    /\ MatchDone
    /\ call.shifts = <<DayShift, NightShift>>
    /\ call.time = MinutesPerDay + 120
    /\ call.detected = 2

\* C12: for every non-empty catalog and every timestamp, detectShiftForTime
\* and findShiftForPunchWithGrace return a shift, never null, and the shift
\* returned is the catalog's first entry whenever no shift window contains
\* the timestamp.
C12_AlwaysAnswers ==
    (MatchDone /\ Len(call.shifts) > 0) =>
        LET t == call.time % MinutesPerDay
            n == Len(call.shifts)
            contained == \E k \in 1..n : Contains(call.shifts[k], t)
            graced == \E k \in 1..n : InGraceWindow(call.shifts[k], call.time)
        IN  /\ call.detected \in 1..n
            /\ call.matched \in 1..n
            /\ ~contained => call.detected = 1
            /\ (~contained /\ ~graced) => call.matched = 1

\* 12:00 with the catalog 18:00-23:00, 22:00-06:00 is in no window, of
\* either kind: the first shift
C12_Witness ==
    /\ MatchDone
    /\ call.shifts = <<EveningShift, NightShift>>
    /\ call.time = MinutesPerDay + 720
    /\ call.detected = 1
    /\ call.matched = 1

----------------------------------------------------------------------------
(* Claims about the presence check, checked under SpecPresence *)

PresenceDone == call.fn = "presence" /\ call.done

\* The thresholds the call was given
CallPresenceTime == IF call.row.presence_time \in {NULL, 0} THEN 3 ELSE call.row.presence_time
CallPresenceCount == IF call.row.presence_count \in {NULL, 0} THEN 3 ELSE call.row.presence_count
CallPresenceWindow ==
    IF call.row.presence_window \in {NULL, 0} THEN 5 ELSE call.row.presence_window

\* The detections of the call's employee and date in the window
InWindow ==
    {i \in DOMAIN presence_detections :
        /\ presence_detections[i].employee_id = call.employeeId
        /\ presence_detections[i].date = call.date
        /\ presence_detections[i].detection_time
                >= now * SecondsPerMinute - CallPresenceWindow}

\* newest - oldest of the detections in the window, in seconds
WindowSpan ==
    LET times == {presence_detections[i].detection_time : i \in InWindow}
    IN  IF times = {} THEN 0
        ELSE (CHOOSE x \in times : \A y \in times : y <= x)
             - (CHOOSE x \in times : \A y \in times : x <= y)

\* C13: over the detections of the employee and date with detection_time >=
\* now - presenceWindow, checkPresenceRequirement returns true exactly when
\* (a) their count >= presenceCount, or (b) there are at least 2 of them and
\* newest - oldest >= presenceTime; false otherwise, in particular for zero
\* detections and for 2 detections with presenceCount 3 whose span is below
\* presenceTime.
C13_PresenceRule ==
    (PresenceDone /\ ~call.storeFails) =>
        LET count == Cardinality(InWindow)
        IN  /\ call.result <=>
                    \/ count >= CallPresenceCount
                    \/ count >= 2 /\ WindowSpan >= CallPresenceTime
            /\ count = 0 => ~call.result
            /\ (count = 2 /\ CallPresenceCount = 3 /\ WindowSpan < CallPresenceTime)
                    => ~call.result

\* Two detections 3 seconds apart, presenceCount 3, presenceTime 3: met by
\* the span
C13_Witness ==
    /\ PresenceDone
    /\ ~call.storeFails
    /\ Cardinality(InWindow) = 2
    /\ CallPresenceCount = 3
    /\ CallPresenceTime = 3
    /\ WindowSpan = 3
    /\ call.result

\* C14: for every presence threshold configuration a shift can carry, when
\* exactly one detection lies in the window checkPresenceRequirement returns
\* false.
C14_SingleDetectionFails ==
    (PresenceDone /\ Cardinality(InWindow) = 1) => ~call.result

----------------------------------------------------------------------------
(* Claims about POST /mark, checked under SpecMark *)

\* C15: when the presence store fails while checkPresenceRequirement runs,
\* the result is false and no exception escapes; with presence enforcement
\* enabled the check-in is then rejected (400, not a server error) and no
\* attendance record is inserted.
C15_PresenceFailsClosed ==
    [][ /\ (MarkPresenceFail /\ punch'.presenceError) =>
                /\ ~punch'.presenceValid
                /\ punch'.pc = "respond"
                /\ punch'.status = 400
                /\ records' = records
        /\ (punch.pc = "respond" /\ punch.presenceError) =>
                /\ records' = records
                /\ resp' # resp => resp'.status = 400
        /\ (MarkInsert /\ enforcePresence) =>
                punch.presenceValid /\ ~punch.presenceError
      ]_vars

\* The third frame of a check-in at 08:50: three detections are in the
\* window, the check has failed, the answer will be 400 and the store has no
\* record
C15_Witness ==
    /\ enforcePresence
    /\ punch.pc = "respond"
    /\ punch.presenceError
    /\ punch.status = 400
    /\ Len(presence_detections) = 3
    /\ records = <<>>
    /\ now = Ticks[1]

\* C16: in the punch flow the attendance write (INSERT on check-in, UPDATE
\* on check-out) happens before the notifications are triggered, and a
\* failure of the email or of the WhatsApp sender, whenever it comes, changes
\* no record, stops no write and does not turn the answer of the punch into
\* an error.
C16_WriteBeforeNotify ==
    [][ /\ (punch'.pc = "notify" /\ punch.pc # "notify") =>
                IF punch.pc = "insert"
                THEN /\ punch'.status = 201
                     /\ Len(records') = Len(records) + 1
                     /\ records'[Len(records')].employee_id = punch.employee_id
                     /\ records'[Len(records')].in_time = punch.timestampStr
                ELSE /\ punch'.status = 200
                     /\ records'[punch.record.attendance_id].out_time = punch.timestampStr
        /\ (notif' # notif /\ notif'.email = "pending" /\ notif'.whatsapp = "pending") =>
                /\ punch.pc = "notify"
                /\ punch.status \in {200, 201}
                /\ records' = records
        /\ NotifySettle =>
                /\ records' = records
                /\ punch' = punch
                /\ resp' = resp
        /\ (MarkRespond /\ punch.status \in {200, 201}) => resp'.status = punch.status
        /\ (punch.pc = "checkout" /\ (notif.email = "failed" \/ notif.whatsapp = "failed"))
                => ENABLED MarkCheckout
      ]_vars

\* A checkout answered 200 after the email sender failed
C16_Witness ==
    /\ resp.kind = "mark"
    /\ resp.status = 200
    /\ notif.email = "failed"
    /\ \E i \in DOMAIN records : records[i].out_time = now

----------------------------------------------------------------------------
(* Claims about a category without shifts, checked under SpecEmpty *)

\* C18: when the catalog of the employee's category is empty,
\* calculateAttendanceMetrics returns all-zero metrics, a punch is rejected
\* (400) and creates or modifies no attendance record, and the sweeper
\* leaves the open records unchanged and goes on.
C18_EmptyCatalogDegrades ==
    [][ /\ (calc'.done /\ calc'.shifts = <<>>) => calc'.result = ZERO_METRICS
        /\ ((\E e \in Employees : MarkLookup(e)) /\ Len(shift_settings) = 0) =>
                /\ punch'.pc = "respond"
                /\ punch'.status = 400
                /\ records' = records
        /\ (punch.pc = "respond" /\ punch.shifts = <<>>) =>
                /\ records' = records
                /\ resp' # resp => resp'.status = 400
        /\ (SweepAStep /\ Len(shift_settings) = 0) =>
                /\ records' = records
                /\ swA'.pc \in {"idle", "loop"}
      ]_vars

\* The check-ins of day 1 08:50 and day 2 06:20 are both open at 06:20, the
\* first past its deadline, and the catalog has been emptied: the sweeper has
\* gone over the first record and is at the second, and a punch has got its 400
C18_Witness ==
    /\ shift_settings = <<>>
    /\ now = Ticks[6]
    /\ Len(records) = 2
    /\ records[1].in_time = Ticks[1] /\ records[1].out_time = NULL
    /\ records[2].in_time = Ticks[6] /\ records[2].out_time = NULL
    /\ swA.pc = "loop"
    /\ swA.now = now
    /\ Len(swA.rows) = 1
    /\ Head(swA.rows).attendance_id = 2
    /\ resp.kind = "mark"
    /\ resp.status = 400

----------------------------------------------------------------------------
(* Claims about the background runs, checked under SpecFault *)

\* the rows other than `id` are what they were
Untouched(id) ==
    /\ Len(records') = Len(records)
    /\ \A i \in DOMAIN records : i # id => records'[i] = records[i]

\* every row that was there is still there, as it was
Kept ==
    /\ Len(records') >= Len(records)
    /\ \A i \in DOMAIN records : records'[i] = records[i]

\* C17: a store failure at any step of a run of a sweeper or of the absence
\* marker is caught inside the run: no exception reaches the timer, the run
\* ends or goes on to its next row, the records it has not touched stay as
\* they were, and the next cycle of the timer can start.
C17_FaultsCaught ==
    /\ [](\A run \in DOMAIN timers : timers[run] # "uncaught")
    /\ [][ /\ SweepASelectFail => (records' = records /\ swA'.pc = "idle")
           /\ SweepAStepFail =>
                /\ Untouched(Head(swA.rows).attendance_id)
                /\ swA' = SweepIdle \/ swA'.rows = Tail(swA.rows)
           /\ SweepBRunFail =>
                /\ Len(records') = Len(records)
                /\ \A i \in DOMAIN records :
                        \/ records'[i] = records[i]
                        \/ /\ records[i].out_time = NULL
                           /\ records'[i].in_time = records[i].in_time
                           /\ records'[i].employee_id = records[i].employee_id
                           /\ records'[i].attendance_date = records[i].attendance_date
                /\ swB' = swB
           /\ MarkAbsentFail => Kept
         ]_vars

\* Every timer has met a store failure and caught it; the one record is
\* open and the 5-minute sweeper has selected it in a later cycle
C17_Witness ==
    /\ \A run \in DOMAIN timers : timers[run] = "caught"
    /\ Len(records) = 1
    /\ records[1].in_time # NULL
    /\ records[1].out_time = NULL
    /\ swA.pc = "loop" /\ Len(swA.rows) = 1

\* the instant at which a shift of the given date ends
EndOfShift(shift, date) ==
    date * MinutesPerDay + EndMinutes(shift)
        + (IF EndMinutes(shift) < StartMinutes(shift) THEN MinutesPerDay ELSE 0)

\* C20: a run of the absence marker modifies or deletes no existing record,
\* inserts only absence markers, none for an employee who has a record with
\* a check-in for that date, and nothing for a shift that has not ended.
C20_MarkerFrame ==
    /\ [](\A k \in DOMAIN shift_settings :
            now < EndOfShift(shift_settings[k], UTCDate(now)) =>
                markAbsentForShift(records, shift_settings[k], UTCDate(now), now) = records)
    /\ [][ MarkAbsent =>
            /\ Kept
            /\ \A i \in (DOMAIN records') \ (DOMAIN records) :
                /\ records'[i].in_time = NULL
                /\ records'[i].out_time = NULL
                /\ records'[i].attendance_date = UTCDate(now)
                /\ ~\E j \in DOMAIN records :
                        /\ records[j].employee_id = records'[i].employee_id
                        /\ records[j].attendance_date = records'[i].attendance_date
                        /\ records[j].in_time # NULL
                /\ \E k \in DOMAIN shift_settings :
                        now >= EndOfShift(shift_settings[k], UTCDate(now))
         ]_vars

\* The absence row of day 1 was closed by a punch and the marker has put a
\* second absence row behind it
C20_Witness ==
    /\ Len(records) = 2
    /\ records[1].in_time = NULL /\ records[1].out_time # NULL
    /\ records[2].in_time = NULL /\ records[2].out_time = NULL
    /\ records[2].attendance_date = records[1].attendance_date

----------------------------------------------------------------------------
(* Claims about the absence marker on its timer, checked under SpecLive *)

LiveDates == {UTCDate(Ticks[i]) : i \in 1..MaxTicks}

\* the shifts of the categories of LiveCatalogs
LiveShifts == {DayShift, NightShift}

HasRecord(e, d) ==
    \E i \in DOMAIN records :
        records[i].employee_id = e /\ records[i].attendance_date = d

HasAbsenceMarker(e, d) ==
    \E i \in DOMAIN records :
        /\ records[i].employee_id = e
        /\ records[i].attendance_date = d
        /\ records[i].in_time = NULL
        /\ records[i].out_time = NULL

\* C19: with the absence marker firing on its timer, for every shift of the
\* category, day or overnight, and every date: once the shift of that date
\* has ended, an employee without a record for the date eventually has an
\* absence marker (null check-in, null check-out) for it, unless a punch of
\* the employee creates a record for the date first.
C19_AbsenceEventuallyMarked ==
    \A d \in LiveDates : \A shift \in LiveShifts : \A e \in Employees :
        (/\ \E k \in DOMAIN shift_settings : shift_settings[k] = shift
         /\ now >= EndOfShift(shift, d)
         /\ ~HasRecord(e, d))
            ~> (HasAbsenceMarker(e, d) \/ HasRecord(e, d))

----------------------------------------------------------------------------
(* Claims about the windows of the shift matcher, checked under SpecMatch *)

\* The time of day t lies in [start, end) of a day shift; for an overnight
\* shift, in its window as C11 has it
ContainsHalfOpen(shift, t) ==
    IF EndMinutes(shift) < StartMinutes(shift)
    THEN t >= StartMinutes(shift) \/ t <= EndMinutes(shift)
    ELSE t >= StartMinutes(shift) /\ t < EndMinutes(shift)

\* C21: detectShiftForTime returns the first shift in catalog order whose
\* window [start, end) contains the time of day; a time equal to the end of
\* a day shift is not in that shift, so 14:00 with A ending at 14:00 listed
\* before B starting at 14:00 is matched to B.
C21_HalfOpenContainment ==
    MatchDone =>
        \A i \in 1..Len(call.shifts) :
            LET t == call.time % MinutesPerDay
            IN  ( /\ ContainsHalfOpen(call.shifts[i], t)
                  /\ \A k \in 1..(i - 1) : ~ContainsHalfOpen(call.shifts[k], t) )
                => call.detected = i

\* The instant lies in [start - graceBefore, end + graceAfter] of an
\* occurrence of the shift: the one that starts on the instant's day or, for
\* a shift that wraps midnight, the one that started the day before
InGraceWindowOfOccurrence(shift, time) ==
    \/ InGraceWindow(shift, time)
    \/ /\ EndMinutes(shift) <= StartMinutes(shift)
       /\ LET day == time - (time % MinutesPerDay)
              startAt == day - MinutesPerDay + StartMinutes(shift)
              endAt == day + EndMinutes(shift)
          IN  time >= startAt - shift.graceBefore /\ time <= endAt + shift.graceAfter

\* C22: findShiftForPunchWithGrace returns the first shift in catalog order
\* whose window [start - graceBefore, end + graceAfter] contains the punch;
\* a punch of the morning after an overnight shift started, at most
\* graceAfter minutes after its end, is matched to that overnight shift.
C22_GraceWindowMatch ==
    MatchDone =>
        \A i \in 1..Len(call.shifts) :
            ( /\ InGraceWindowOfOccurrence(call.shifts[i], call.time)
              /\ \A k \in 1..(i - 1) :
                    ~InGraceWindowOfOccurrence(call.shifts[k], call.time) )
            => call.matched = i

----------------------------------------------------------------------------
(* Claims about the sweepers on their timers, checked under SpecSweep *)

\* the record i has a check-in, no check-out, a category with a shift, and
\* the deadline of the 5-minute sweeper has come
OverdueOpen(i) ==
    /\ i \in DOMAIN records
    /\ records[i].in_time # NULL
    /\ records[i].out_time = NULL
    /\ Len(shift_settings) > 0
    /\ LET inTime == NewDate(records[i].in_time)
       IN  now >= getShiftEndWithGrace(inTime, ShiftOf(inTime, shift_settings))

\* C23: with the sweepers firing on their timers and the store available,
\* every record with a check-in and no check-out whose category has a shift
\* is closed (by a punch or a sweeper) once its deadline has come; a pass
\* that fails or skips a record in one cycle does not keep a record open.
\* A closed record stays closed and an overdue one stays overdue, so this is:
\* again and again no record is open past its deadline.
C23_SweepCloses == []<>(\A i \in DOMAIN records : ~OverdueOpen(i))

\* The 5-minute sweeper has met a store failure in a pass, and both
\* check-ins are closed, the one of 08:50 at its deadline 17:30
C23_Witness ==
    /\ timers.autoCheckoutOverdue = "caught"
    /\ Len(records) >= 2
    /\ records[1].in_time = Ticks[1]
    /\ records[1].out_time = MinutesPerDay + 1050
    /\ records[2].in_time # NULL
    /\ records[2].out_time # NULL
    /\ records[2].total_working_hours_decimal = 0

\* C24: in the Mark service, where both sweepers run, a record gets the same
\* check-out whichever sweeper closes it: both compute the same shift end
\* for its check-in and apply the same deadline.
C24_OneDeadlineRule ==
    [][ (SweepAStep \/ SweepBStep) =>
            \A i \in DOMAIN records :
                (records[i].out_time = NULL /\ records'[i].out_time # NULL) =>
                    LET inTime == NewDate(records[i].in_time)
                        shift == ShiftOf(inTime, shift_settings)
                    IN  /\ records'[i].out_time = getShiftEndWithGrace(inTime, shift)
                        /\ records'[i].out_time = AutoCheckoutTimeB(inTime, shift)
      ]_vars

----------------------------------------------------------------------------
(* Claims about the records of the store, checked under SpecSeq *)

\* C25: in every reachable state a record with a check-out has a check-in:
\* absence markers (null check-in, null check-out) are never given a
\* check-out by a punch or by a sweeper.
C25_CheckOutHasCheckIn ==
    \A i \in DOMAIN records :
        records[i].out_time # NULL => records[i].in_time # NULL

\* C26: in every reachable state every record with a check-in and a
\* check-out has its check-out strictly after its check-in, whether a punch
\* or a sweeper closed it.
C26_CheckOutAfterCheckIn ==
    \A i \in DOMAIN records :
        (records[i].in_time # NULL /\ records[i].out_time # NULL) =>
            records[i].out_time > records[i].in_time

\* C27: punches alternate between check-in and check-out: a punch made while
\* the employee has an open record (check-in set, check-out null) closes
\* that record and creates no new one, also when the punch is made on the
\* day after the check-in, so no employee ever has more than one open
\* record.
C27_PunchesAlternate ==
    /\ [][ \A e \in Employees :
              (PunchRun(e) /\ \E i \in DOMAIN records :
                                /\ records[i].employee_id = e
                                /\ records[i].in_time # NULL
                                /\ records[i].out_time = NULL)
              => Len(records') = Len(records)
        ]_vars
    /\ [](\A e \in Employees :
            Cardinality({i \in DOMAIN records :
                            /\ records[i].employee_id = e
                            /\ records[i].in_time # NULL
                            /\ records[i].out_time = NULL}) <= 1)

----------------------------------------------------------------------------
(* Claims about the shift of a check-in, checked under SpecMatch *)

\* C28: for every catalog and every accepted check-in time the shift found
\* by containment on the check-in time, which the metrics of the check-out
\* use, is the shift the check-in was matched to with grace, and the delay
\* stored at check-in equals the delay recomputed at check-out.
C28_SameShiftAtCheckOut ==
    (MatchDone /\ Len(call.shifts) > 0) =>
        /\ call.detected = call.matched
        /\ DelayAtCheckIn(call.time, call.shifts[call.matched])
             = calculateAttendanceMetrics(call.time, call.time + 1,
                                          call.shifts, FALSE).delay_by_minutes

----------------------------------------------------------------------------
(* Claims about the delay of a check-in, checked under SpecCalc *)

\* C29: for a check-in that lies in the window of a shift, M > 0 minutes
\* after the start of that occurrence of the shift, the calculator returns
\* delay_by_minutes = M; for a shift that wraps midnight the occurrence of a
\* check-in after midnight started the day before (22:00-06:00, check-in
\* 01:00: 180).
C29_DelayFromOccurrenceStart ==
    CalcValidCall =>
        LET shift == ShiftOf(calc.inTimeStr, calc.shifts)
            startMinutes == shift.startHour * 60 + shift.startMinute
            endMinutes == shift.endHour * 60 + shift.endMinute
            t == calc.inTimeStr % MinutesPerDay
            contained == IF endMinutes < startMinutes
                         THEN t >= startMinutes \/ t <= endMinutes
                         ELSE t >= startMinutes /\ t <= endMinutes
            M == IF t >= startMinutes THEN t - startMinutes
                 ELSE t + MinutesPerDay - startMinutes
        IN  (contained /\ M > 0) => calc.result.delay_by_minutes = M

----------------------------------------------------------------------------
(* Claims about absence rows and check-ins, checked under SpecSeq *)

\* C30: in every reachable state an employee who has an absence marker (a
\* record with a null check-in) for a date has no record with a check-in for
\* that date: a punch made after the employee was marked absent does not
\* leave an absence row and a real check-in side by side.
C30_AbsentOrCheckedIn ==
    \A i, k \in DOMAIN records :
        ( /\ records[i].employee_id = records[k].employee_id
          /\ records[i].attendance_date = records[k].attendance_date
          /\ records[i].in_time = NULL )
        => records[k].in_time = NULL

====
